---- MODULE Spec2Model ----
(***************************************************************************)
(* Bookshelf toolkit: the line readers of bookshelf_analyzer.py,            *)
(* fixed_elements_visualizer.py and scl_visualizer.py, and the three        *)
(* main() entry points, as state machines.                                  *)
(*                                                                          *)
(* Text is kept as text: a line is a string, and strip / split /            *)
(* startswith / int are computed character by character as Python does.     *)
(* A dict is a function whose DOMAIN is its key set; a Counter is a dict    *)
(* of positive integers; None is the empty tuple where a value is optional. *)
(***************************************************************************)
EXTENDS Integers, Sequences, FiniteSets, TLC

VARIABLES
    file,         \* the lines of the file being read (readlines() / iteration over f)
    pos,          \* index of the next line the reader's for-loop will take
    pc,           \* where the running function is
    locals,       \* the local variables of the running reader
    ret,          \* what the reader returned, once it has returned
    self,         \* the BookshelfAnalyzer object's fields set so far
    env,          \* the run's surroundings: which paths exist and what they hold
    proc          \* the process: exit status and the artifacts written

vars == <<file, pos, pc, locals, ret, self, env, proc>>

(***************************************************************************)
(* Python text primitives                                                   *)
(***************************************************************************)

\* The characters str.strip() and str.split() treat as white space.
WhiteSpace == {" ", "\t", "\n", "\r"}

RECURSIVE LStrip(_)
LStrip(s) ==
    IF Len(s) > 0 /\ Head(s) \in WhiteSpace THEN LStrip(Tail(s)) ELSE s

RECURSIVE RStrip(_)
RStrip(s) ==
    IF Len(s) > 0 /\ SubSeq(s, Len(s), Len(s)) \in WhiteSpace
    THEN RStrip(SubSeq(s, 1, Len(s) - 1))
    ELSE s

\* str.strip(): white space removed at both ends.
Strip(s) == RStrip(LStrip(s))

\* str.startswith(p)
StartsWith(s, p) == Len(s) >= Len(p) /\ SubSeq(s, 1, Len(p)) = p

\* The leading run of non-white-space characters of s.
RECURSIVE TakeWord(_)
TakeWord(s) ==
    IF Len(s) = 0 \/ Head(s) \in WhiteSpace
    THEN ""
    ELSE Head(s) \o TakeWord(Tail(s))

\* str.split() with no argument: the maximal runs of non-white-space, in order.
RECURSIVE Split(_)
Split(s) ==
    LET t == LStrip(s) IN
    IF Len(t) = 0
    THEN <<>>
    ELSE LET w == TakeWord(t) IN <<w>> \o Split(SubSeq(t, Len(w) + 1, Len(t)))

\* `sub in s`
RECURSIVE Contains(_, _)
Contains(s, sub) ==
    IF Len(s) < Len(sub) THEN FALSE
    ELSE StartsWith(s, sub) \/ Contains(Tail(s), sub)

Digits == {"0", "1", "2", "3", "4", "5", "6", "7", "8", "9"}

DigitVal(c) ==
    CASE c = "0" -> 0 [] c = "1" -> 1 [] c = "2" -> 2 [] c = "3" -> 3
      [] c = "4" -> 4 [] c = "5" -> 5 [] c = "6" -> 6 [] c = "7" -> 7
      [] c = "8" -> 8 [] c = "9" -> 9

RECURSIVE AllDigits(_)
AllDigits(s) == Len(s) = 0 \/ (Head(s) \in Digits /\ AllDigits(Tail(s)))

Unsigned(t) == IF Len(t) > 0 /\ Head(t) \in {"+", "-"} THEN Tail(t) ELSE t

\* int(t) succeeds: an optional sign and at least one decimal digit.  (int()
\* also takes `_` between digits and non-ASCII digits; no token here has them.)
IsInt(t) == Len(Unsigned(t)) > 0 /\ AllDigits(Unsigned(t))

RECURSIVE NatVal(_)
NatVal(s) ==
    IF Len(s) = 0 THEN 0
    ELSE 10 * NatVal(SubSeq(s, 1, Len(s) - 1)) + DigitVal(SubSeq(s, Len(s), Len(s)))

\* int(t), for a t that IsInt
IntVal(t) == IF Head(t) = "-" THEN 0 - NatVal(Unsigned(t)) ELSE NatVal(Unsigned(t))

(***************************************************************************)
(* dict and Counter                                                         *)
(***************************************************************************)

EmptyDict == [k \in {} |-> k]

\* d[k] = v
Put(d, k, v) == [x \in (DOMAIN d) \cup {k} |-> IF x = k THEN v ELSE d[x]]

\* Counter: c[k] += 1, a missing key counting as 0
Incr(c, k) == Put(c, k, (IF k \in DOMAIN c THEN c[k] ELSE 0) + 1)

RECURSIVE SumOver(_, _)
SumOver(c, keys) ==
    IF keys = {} THEN 0
    ELSE LET k == CHOOSE x \in keys : TRUE IN c[k] + SumOver(c, keys \ {k})

\* sum(c.values())
Total(c) == SumOver(c, DOMAIN c)

\* None, where a variable holds either None or a value
None == <<>>

\* What a line handler hands back to its loop: the locals after the line, and
\* whether the line raised (the loop is then left for the except clause).
Ok(l) == [st |-> l, exc |-> FALSE]
Raise(l) == [st |-> l, exc |-> TRUE]

\* All sequences over S of length at most n.
RECURSIVE SeqsUpTo(_, _)
SeqsUpTo(S, n) ==
    IF n = 0 THEN {<<>>}
    ELSE LET shorter == SeqsUpTo(S, n - 1) IN
         shorter \cup {Append(q, x) : q \in {r \in shorter : Len(r) = n - 1}, x \in S}

\* The variables a specification does not use stay at these values.
Unused == <<>>

(***************************************************************************)
(* BookshelfAnalyzer.parse_nets_file                                        *)
(***************************************************************************)

\* Locals at the top of the for-loop.  current_net is the dict last stored
\* under nets[<its name>] (the same object), so it is kept as that key: <<>>
\* for None, <<name>> for the open net.
NetsLocals == [nets |-> EmptyDict, net_count |-> 0, current_net |-> None]

\* The loop body counting a net only when its name is new.
NetsLineCountNew(l, raw) ==
    LET line == Strip(raw) IN
    IF StartsWith(line, "net") THEN
        LET parts == Split(line) IN
        IF Len(parts) >= 3 THEN
            IF ~IsInt(parts[3]) THEN Raise(l)
            ELSE Ok([nets |-> Put(l.nets, parts[2],
                                  [name |-> parts[2],
                                   pin_count |-> IntVal(parts[3]),
                                   connections |-> <<>>]),
                     net_count |-> IF parts[2] \in DOMAIN l.nets THEN l.net_count
                                  ELSE l.net_count + 1,
                     current_net |-> <<parts[2]>>])
        ELSE Ok(l)
    ELSE IF StartsWith(line, "\t") /\ l.current_net # None THEN
        LET connection == Split(Strip(line))
            name == l.current_net[1] IN
        IF Len(connection) >= 2 THEN
            Ok([l EXCEPT !.nets[name].connections =
                    Append(@, [instance |-> connection[1], pin |-> connection[2]])])
        ELSE Ok(l)
    ELSE IF StartsWith(line, "endnet") THEN Ok([l EXCEPT !.current_net = None])
    ELSE Ok(l)

\* One pass of the loop body, lines 133-154.
NetsLine(l, raw) ==
    LET line == Strip(raw) IN
    IF StartsWith(line, "net") THEN
        LET parts == Split(line) IN
        IF Len(parts) >= 3 THEN
            IF ~IsInt(parts[3]) THEN Raise(l)
            ELSE Ok([nets |-> Put(l.nets, parts[2],
                                  [name |-> parts[2],
                                   pin_count |-> IntVal(parts[3]),
                                   connections |-> <<>>]),
                     net_count |-> l.net_count + 1,
                     current_net |-> <<parts[2]>>])
        ELSE Ok(l)
    ELSE IF StartsWith(line, "\t") /\ l.current_net # None THEN
        LET connection == Split(Strip(line))
            name == l.current_net[1] IN
        IF Len(connection) >= 2 THEN
            Ok([l EXCEPT !.nets[name].connections =
                    Append(@, [instance |-> connection[1], pin |-> connection[2]])])
        ELSE Ok(l)
    ELSE IF StartsWith(line, "endnet") THEN Ok([l EXCEPT !.current_net = None])
    ELSE Ok(l)

\* return nets, net_count (line 159), reached from the loop's end and from
\* the except clause alike.
NetsResult(l) == [nets |-> l.nets, net_count |-> l.net_count]

MaxNetsLines == 4

NetsLineSet == {"net N1 2", "net N2 x", "net N1 3 ", "\tI1 A", "\tI2 B", "endnet", "net N3",
                "net N4 1"}

NetsInit ==
    /\ file \in SeqsUpTo(NetsLineSet, MaxNetsLines)
    /\ pos = 1
    /\ pc = "loop"
    /\ locals = NetsLocals
    /\ ret = None
    /\ self = Unused /\ env = Unused /\ proc = Unused

NetsStep ==
    /\ pc = "loop" /\ pos <= Len(file)
    /\ LET r == NetsLine(locals, file[pos]) IN
        /\ locals' = r.st
        /\ pos' = pos + 1
        /\ IF r.exc
           THEN pc' = "done" /\ ret' = [val |-> NetsResult(r.st), error |-> TRUE]
           ELSE pc' = pc /\ ret' = ret
    /\ UNCHANGED <<file, self, env, proc>>

NetsReturn ==
    /\ pc = "loop" /\ pos > Len(file)
    /\ pc' = "done"
    /\ ret' = [val |-> NetsResult(locals), error |-> FALSE]
    /\ UNCHANGED <<file, pos, locals, self, env, proc>>

NetsNext == NetsStep \/ NetsReturn

SpecNets == NetsInit /\ [][NetsNext]_vars

\* C1: when the nets reader returns without a parse error, every block of the
\* file made of a `net <name> <n>` line, k tab-prefixed `<instance> <pin>`
\* lines and `endnet` (its name not opened again later) has left a net <name>
\* with declared pin count n and exactly those k connections in input order.
NetsBlockAt(i, k) ==
    /\ i + k + 1 <= Len(file)
    /\ LET p == Split(file[i]) IN Len(p) = 3 /\ p[1] = "net" /\ IsInt(p[3])
    /\ \A j \in 1..k : StartsWith(file[i + j], "\t") /\ Len(Split(file[i + j])) = 2
    /\ Strip(file[i + k + 1]) = "endnet"

NetsReopened(i, k) ==
    \E j \in (i + k + 2)..Len(file) :
        /\ StartsWith(Strip(file[j]), "net")
        /\ Len(Split(file[j])) >= 3
        /\ Split(file[j])[2] = Split(file[i])[2]

C1_BlockConnectionsCaptured ==
    (pc = "done" /\ ~ret.error) =>
        \A i \in 1..Len(file), k \in 0..Len(file) :
            (NetsBlockAt(i, k) /\ ~NetsReopened(i, k)) =>
                LET name == Split(file[i])[2] IN
                /\ name \in DOMAIN ret.val.nets
                /\ ret.val.nets[name].pin_count = IntVal(Split(file[i])[3])
                /\ ret.val.nets[name].connections =
                       [j \in 1..k |-> [instance |-> Split(file[i + j])[1],
                                        pin |-> Split(file[i + j])[2]]]

(***************************************************************************)
(* BookshelfAnalyzer.parse_nodes_file                                       *)
(***************************************************************************)

NodesLocals == [instances |-> EmptyDict, instance_types |-> EmptyDict]

\* The loop body counting a type only for an instance name not seen before.
NodesLineDedup(l, raw) ==
    LET line == Strip(raw) IN
    IF Len(line) > 0 /\ ~StartsWith(line, "#") THEN
        LET parts == Split(line) IN
        IF Len(parts) >= 2 THEN
            Ok([instances |-> Put(l.instances, parts[1], parts[2]),
                instance_types |-> IF parts[1] \in DOMAIN l.instances
                                   THEN l.instance_types
                                   ELSE Incr(l.instance_types, parts[2])])
        ELSE Ok(l)
    ELSE Ok(l)

\* One pass of the loop body, lines 108-115.
NodesLine(l, raw) ==
    LET line == Strip(raw) IN
    IF Len(line) > 0 /\ ~StartsWith(line, "#") THEN
        LET parts == Split(line) IN
        IF Len(parts) >= 2 THEN
            Ok([instances |-> Put(l.instances, parts[1], parts[2]),
                instance_types |-> Incr(l.instance_types, parts[2])])
        ELSE Ok(l)
    ELSE Ok(l)

\* return instances, instance_types (line 120)
NodesResult(l) == [instances |-> l.instances, instance_types |-> l.instance_types]

RECURSIVE NodesLoop(_, _, _)
NodesLoop(l, lines, i) ==
    IF i > Len(lines) THEN l
    ELSE LET r == NodesLine(l, lines[i]) IN
         IF r.exc THEN r.st ELSE NodesLoop(r.st, lines, i + 1)

\* The whole call on a path that exists: open() raising (f.readable false)
\* goes to the except clause with the locals still empty.
parse_nodes_file(f) ==
    IF ~f.readable THEN NodesResult(NodesLocals)
    ELSE NodesResult(NodesLoop(NodesLocals, f.lines, 1))

MaxNodesLines == 4

NodesLineSet == {"I1 LUT6", "I2 LUT6", "I1 FF", "I3 FF extra", "# I4 LUT6", "I5", " "}

NodesInit ==
    /\ file \in SeqsUpTo(NodesLineSet, MaxNodesLines)
    /\ pos = 1
    /\ pc = "loop"
    /\ locals = NodesLocals
    /\ ret = None
    /\ self = Unused /\ env = Unused /\ proc = Unused

NodesStep ==
    /\ pc = "loop" /\ pos <= Len(file)
    /\ LET r == NodesLine(locals, file[pos]) IN
        /\ locals' = r.st
        /\ pos' = pos + 1
        /\ IF r.exc
           THEN pc' = "done" /\ ret' = [val |-> NodesResult(r.st), error |-> TRUE]
           ELSE pc' = pc /\ ret' = ret
    /\ UNCHANGED <<file, self, env, proc>>

NodesReturn ==
    /\ pc = "loop" /\ pos > Len(file)
    /\ pc' = "done"
    /\ ret' = [val |-> NodesResult(locals), error |-> FALSE]
    /\ UNCHANGED <<file, pos, locals, self, env, proc>>

NodesNext == NodesStep \/ NodesReturn

SpecNodes == NodesInit /\ [][NodesNext]_vars

\* The lines the loop has taken so far that name an instance: non-empty, not
\* `#`-prefixed, at least 2 tokens.
NodesQualifying ==
    {i \in 1..(pos - 1) :
        LET s == Strip(file[i]) IN
        Len(s) > 0 /\ ~StartsWith(s, "#") /\ Len(Split(s)) >= 2}

NodesLast(name) ==
    CHOOSE i \in NodesQualifying :
        /\ Split(file[i])[1] = name
        /\ \A j \in NodesQualifying : Split(file[j])[1] = name => j <= i

\* C10: after any sequence of lines the instance map has one entry per
\* distinct instance name of the qualifying lines, holding the cell type of
\* the name's last occurrence, and each type's count is the number of
\* qualifying lines of that type, so the counter's total is the number of
\* qualifying lines.
C10_NodesMapAndCounter ==
    /\ DOMAIN locals.instances = {Split(file[i])[1] : i \in NodesQualifying}
    /\ \A name \in DOMAIN locals.instances :
           locals.instances[name] = Split(file[NodesLast(name)])[2]
    /\ DOMAIN locals.instance_types = {Split(file[i])[2] : i \in NodesQualifying}
    /\ \A t \in DOMAIN locals.instance_types :
           locals.instance_types[t] =
               Cardinality({i \in NodesQualifying : Split(file[i])[2] = t})
    /\ Total(locals.instance_types) = Cardinality(NodesQualifying)

\* A duplicated instance name: counted twice, mapped once, to its last type.
C10_Witness ==
    /\ pc = "done"
    /\ \E i, j \in NodesQualifying :
           /\ i < j
           /\ Split(file[i])[1] = Split(file[j])[1]
           /\ Split(file[i])[2] # Split(file[j])[2]
    /\ Total(ret.val.instance_types) > Cardinality(DOMAIN ret.val.instances)

(***************************************************************************)
(* parse_pl_file: BookshelfAnalyzer's and the fixed-elements visualizer's   *)
(***************************************************************************)

\* The test with the comparison of the last token left out.
IsFixedPartsAnyLast(parts) == Len(parts) >= 5

\* `parts` is a FIXED record: len(parts) >= 5 and parts[-1] == 'FIXED'
\* (analyzer line 174, visualizer line 52).
IsFixedParts(parts) == Len(parts) >= 5 /\ parts[Len(parts)] = "FIXED"

\* x = int(parts[1]); y = int(parts[2]); bel = int(parts[3]) all succeed
PlIntsOk(parts) == IsInt(parts[2]) /\ IsInt(parts[3]) /\ IsInt(parts[4])

\* hasattr(self, 'instances') and instance_name in self.instances, then the
\* key counted (analyzer lines 184-188).
FixedTypeOf(slf, instance_name) ==
    IF "instances" \in DOMAIN slf /\ instance_name \in DOMAIN slf.instances
    THEN slf.instances[instance_name]
    ELSE "UNKNOWN"

APlLocals == [fixed_instances |-> EmptyDict, fixed_types |-> EmptyDict]

\* The loop body with the else branch of the type lookup left out.
APlLineNoUnknown(l, raw, slf) ==
    LET line == Strip(raw) IN
    IF Len(line) > 0 /\ ~StartsWith(line, "#") THEN
        LET parts == Split(line) IN
        IF IsFixedParts(parts) THEN
            IF ~PlIntsOk(parts) THEN Raise(l)
            ELSE Ok([fixed_instances |->
                         Put(l.fixed_instances, parts[1],
                             [x |-> IntVal(parts[2]), y |-> IntVal(parts[3]),
                              bel |-> IntVal(parts[4])]),
                     fixed_types |->
                         IF "instances" \in DOMAIN slf /\ parts[1] \in DOMAIN slf.instances
                         THEN Incr(l.fixed_types, slf.instances[parts[1]])
                         ELSE l.fixed_types])
        ELSE Ok(l)
    ELSE Ok(l)

\* BookshelfAnalyzer.parse_pl_file, one pass of the loop body, lines 171-188.
APlLine(l, raw, slf) ==
    LET line == Strip(raw) IN
    IF Len(line) > 0 /\ ~StartsWith(line, "#") THEN
        LET parts == Split(line) IN
        IF IsFixedParts(parts) THEN
            IF ~PlIntsOk(parts) THEN Raise(l)
            ELSE Ok([fixed_instances |->
                         Put(l.fixed_instances, parts[1],
                             [x |-> IntVal(parts[2]), y |-> IntVal(parts[3]),
                              bel |-> IntVal(parts[4])]),
                     fixed_types |-> Incr(l.fixed_types, FixedTypeOf(slf, parts[1]))])
        ELSE Ok(l)
    ELSE Ok(l)

\* return fixed_instances, fixed_types (line 193): the except clause only
\* prints, so what was gathered before a raising line is returned.
APlResult(l) == [fixed_instances |-> l.fixed_instances, fixed_types |-> l.fixed_types]

RECURSIVE APlLoop(_, _, _, _)
APlLoop(l, lines, i, slf) ==
    IF i > Len(lines) THEN l
    ELSE LET r == APlLine(l, lines[i], slf) IN
         IF r.exc THEN r.st ELSE APlLoop(r.st, lines, i + 1, slf)

A_parse_pl_file(f, slf) ==
    IF ~f.readable THEN APlResult(APlLocals)
    ELSE APlResult(APlLoop(APlLocals, f.lines, 1, slf))

FPlLocals == [fixed_instances |-> <<>>]

\* fixed_elements_visualizer.parse_pl_file, one pass of the loop body,
\* lines 49-63.
FPlLine(l, raw) ==
    LET line == Strip(raw) IN
    IF Len(line) > 0 /\ ~StartsWith(line, "#") THEN
        LET parts == Split(line) IN
        IF IsFixedParts(parts) THEN
            IF ~PlIntsOk(parts) THEN Raise(l)
            ELSE Ok([fixed_instances |->
                         Append(l.fixed_instances,
                                [name |-> parts[1], x |-> IntVal(parts[2]),
                                 y |-> IntVal(parts[3]), bel |-> IntVal(parts[4])])])
        ELSE Ok(l)
    ELSE Ok(l)

\* What the visualizer's reader returns: [] from the except clause (line 67),
\* the list otherwise (line 69).
FPlResult(l, raised) == IF raised THEN <<>> ELSE l.fixed_instances

RECURSIVE FPlLoop(_, _, _)
FPlLoop(l, lines, i) ==
    IF i > Len(lines) THEN Ok(l)
    ELSE LET r == FPlLine(l, lines[i]) IN
         IF r.exc THEN r ELSE FPlLoop(r.st, lines, i + 1)

F_parse_pl_file(f) ==
    IF ~f.readable THEN <<>>
    ELSE LET r == FPlLoop(FPlLocals, f.lines, 1) IN FPlResult(r.st, r.exc)

MaxPlLines == 3

PlLineSet == {"I1 5 5 0 FIXED", "I2 3 3 0", "I2 x 3 0 FIXED", "I3 1 2 0 FIXED\n",
              "# I4 1 1 0 FIXED", "I1 7 -1 1 0 FIXED", "FIXED", "I6 2 2 0 PLACED"}

\* BookshelfAnalyzer.__init__ (lines 23-25)
NewAnalyzer == [directory_path |-> "dir", analysis_results |-> EmptyDict]

AsFile(lines) == [readable |-> TRUE, lines |-> lines]

\* The objects parse_pl_file can run on: a new analyzer, or one whose
\* instances analyze_directory has set (line 346) from a .nodes file or, the
\* file missing, to {}.
PlNodesFiles == {<<"I1 LUT6", "I3 FF">>, <<"I1 FF", "I5 LUT6", "I1 LUT6">>}

PlSelves ==
    {NewAnalyzer}
    \cup {[directory_path |-> "dir", analysis_results |-> EmptyDict,
           instances |-> m] :
             m \in {EmptyDict} \cup {parse_nodes_file(AsFile(n)).instances : n \in PlNodesFiles}}

PlInit ==
    /\ file \in SeqsUpTo(PlLineSet, MaxPlLines)
    /\ pos = 1
    /\ pc = "loop"
    /\ \/ env = [program |-> "analyzer"] /\ self \in PlSelves /\ locals = APlLocals
       \/ env = [program |-> "fixed_elements"] /\ self = Unused /\ locals = FPlLocals
    /\ ret = None
    /\ proc = Unused

APlStep ==
    /\ env.program = "analyzer"
    /\ pc = "loop" /\ pos <= Len(file)
    /\ LET r == APlLine(locals, file[pos], self) IN
        /\ locals' = r.st
        /\ pos' = pos + 1
        /\ IF r.exc
           THEN pc' = "done" /\ ret' = [val |-> APlResult(r.st), error |-> TRUE]
           ELSE pc' = pc /\ ret' = ret
    /\ UNCHANGED <<file, self, env, proc>>

APlReturn ==
    /\ env.program = "analyzer"
    /\ pc = "loop" /\ pos > Len(file)
    /\ pc' = "done"
    /\ ret' = [val |-> APlResult(locals), error |-> FALSE]
    /\ UNCHANGED <<file, pos, locals, self, env, proc>>

FPlStep ==
    /\ env.program = "fixed_elements"
    /\ pc = "loop" /\ pos <= Len(file)
    /\ LET r == FPlLine(locals, file[pos]) IN
        /\ locals' = r.st
        /\ pos' = pos + 1
        /\ IF r.exc
           THEN pc' = "done" /\ ret' = [val |-> FPlResult(r.st, TRUE), error |-> TRUE]
           ELSE pc' = pc /\ ret' = ret
    /\ UNCHANGED <<file, self, env, proc>>

FPlReturn ==
    /\ env.program = "fixed_elements"
    /\ pc = "loop" /\ pos > Len(file)
    /\ pc' = "done"
    /\ ret' = [val |-> FPlResult(locals, FALSE), error |-> FALSE]
    /\ UNCHANGED <<file, pos, locals, self, env, proc>>

PlNext == APlStep \/ APlReturn \/ FPlStep \/ FPlReturn

SpecPl == PlInit /\ [][PlNext]_vars

\* The lines the loop has taken so far.
PlTaken == 1..(pos - 1)

\* The four conditions on a line's shape: non-empty, not `#`-prefixed, at
\* least 5 tokens, last token exactly FIXED.
PlShape(raw) ==
    LET s == Strip(raw) IN
    /\ Len(s) > 0
    /\ ~StartsWith(s, "#")
    /\ Len(Split(s)) >= 5
    /\ Split(s)[Len(Split(s))] = "FIXED"

PlNumeric(raw) ==
    LET p == Split(raw) IN IsInt(p[2]) /\ IsInt(p[3]) /\ IsInt(p[4])

PlWellFormed(raw) == PlShape(raw) /\ PlNumeric(raw)

PlName(raw) == Split(raw)[1]

PlPlacement(raw) ==
    LET p == Split(raw) IN [x |-> IntVal(p[2]), y |-> IntVal(p[3]), bel |-> IntVal(p[4])]

PlNamed(raw) ==
    LET p == Split(raw) IN
    [name |-> p[1], x |-> IntVal(p[2]), y |-> IntVal(p[3]), bel |-> IntVal(p[4])]

RECURSIVE PlListOf(_)
PlListOf(n) ==
    IF n = 0 THEN <<>>
    ELSE IF PlWellFormed(file[n]) THEN Append(PlListOf(n - 1), PlNamed(file[n]))
    ELSE PlListOf(n - 1)

PlLastOf(name) ==
    CHOOSE i \in PlTaken :
        /\ PlWellFormed(file[i]) /\ PlName(file[i]) = name
        /\ \A j \in PlTaken : (PlWellFormed(file[j]) /\ PlName(file[j]) = name) => j <= i

\* C4: a reader that met an exception at some line returns its empty result.
C4_ErrorReturnsEmpty ==
    (pc = "done" /\ ret.error) =>
        IF env.program = "analyzer"
        THEN ret.val = [fixed_instances |-> EmptyDict, fixed_types |-> EmptyDict]
        ELSE ret.val = <<>>

\* C5: a FIXED line whose x, y or bel does not parse is not fatal: every
\* well-formed FIXED line after it is in the reader's result.
C5_LaterLinesStillRecorded ==
    pc = "done" =>
        \A i, j \in 1..Len(file) :
            (i < j /\ PlShape(file[i]) /\ ~PlNumeric(file[i]) /\ PlWellFormed(file[j])) =>
                IF env.program = "analyzer"
                THEN PlName(file[j]) \in DOMAIN ret.val.fixed_instances
                ELSE \E k \in 1..Len(ret.val) : ret.val[k] = PlNamed(file[j])

C9_Class(name) ==
    IF "instances" \in DOMAIN self /\ name \in DOMAIN self.instances
    THEN self.instances[name]
    ELSE "UNKNOWN"

C9_Captured == {i \in PlTaken : PlWellFormed(file[i])}

\* C9: in the analyzer, each type's count in the fixed-type distribution is
\* the number of captured FIXED lines whose instance the .nodes map gives
\* that type (UNKNOWN for a name the map lacks, or with no map at all), so
\* the counts add up to the number of captured lines.
C9_FixedTypeDistribution ==
    env.program = "analyzer" =>
        /\ DOMAIN locals.fixed_types = {C9_Class(PlName(file[i])) : i \in C9_Captured}
        /\ \A t \in DOMAIN locals.fixed_types :
               locals.fixed_types[t] =
                   Cardinality({i \in C9_Captured : C9_Class(PlName(file[i])) = t})
        /\ Total(locals.fixed_types) = Cardinality(C9_Captured)

\* A typed and an untyped fixed instance in one run, against a non-empty map.
C9_Witness ==
    /\ env.program = "analyzer" /\ pc = "done"
    /\ "instances" \in DOMAIN self /\ self.instances # EmptyDict
    /\ "UNKNOWN" \in DOMAIN ret.val.fixed_types
    /\ Cardinality(DOMAIN ret.val.fixed_types) >= 2
    /\ \E i \in C9_Captured : PlName(file[i]) \notin DOMAIN self.instances

(***************************************************************************)
(* BookshelfAnalyzer.parse_scl_file and count_site_types_from_scl           *)
(***************************************************************************)

\* max_site_map_entries (line 210)
max_site_map_entries == 10000

\* setattr for each field of `fields` on the object `obj`
SetAttrs(obj, fields) == fields @@ obj

ScLocals ==
    [sites |-> EmptyDict, resources |-> EmptyDict, site_map |-> <<>>,
     sitemap_dimensions |-> None, current_site |-> None,
     in_resources |-> FALSE, in_sitemap |-> FALSE, site_map_count |-> 0]

\* The guard letting one entry more than the limit in.
CanStoreOffByOne(l, parts) ==
    Len(parts) >= 3 /\ l.site_map_count <= max_site_map_entries

\* len(parts) >= 3 and site_map_count < max_site_map_entries (line 254)
CanStore(l, parts) ==
    Len(parts) >= 3 /\ l.site_map_count < max_site_map_entries

\* BookshelfAnalyzer.parse_scl_file, one pass of the loop body, lines 213-264.
ScLine(l, raw) ==
    LET line == Strip(raw)
        parts == Split(line) IN
    IF StartsWith(line, "SITEMAP") THEN
        IF Len(parts) >= 3 /\ IsInt(parts[2]) /\ IsInt(parts[3])
        THEN Ok([l EXCEPT !.in_sitemap = TRUE,
                          !.sitemap_dimensions = <<IntVal(parts[2]), IntVal(parts[3])>>])
        ELSE Ok([l EXCEPT !.in_sitemap = TRUE])
    ELSE IF StartsWith(line, "END SITEMAP") THEN Ok([l EXCEPT !.in_sitemap = FALSE])
    ELSE IF StartsWith(line, "SITE") /\ ~l.in_sitemap THEN
        IF Len(parts) < 2 THEN Raise(l)
        ELSE Ok([l EXCEPT !.current_site = <<parts[2]>>,
                          !.sites = Put(@, parts[2], [resources |-> EmptyDict])])
    ELSE IF StartsWith(line, "END SITE") THEN Ok([l EXCEPT !.current_site = None])
    ELSE IF l.current_site # None /\ Len(line) > 0 /\ ~l.in_sitemap THEN
        IF Len(parts) >= 2 THEN
            IF ~IsInt(parts[2]) THEN Raise(l)
            ELSE Ok([l EXCEPT !.sites[l.current_site[1]].resources =
                                  Put(@, parts[1], IntVal(parts[2]))])
        ELSE Ok(l)
    ELSE IF StartsWith(line, "RESOURCES") THEN Ok([l EXCEPT !.in_resources = TRUE])
    ELSE IF StartsWith(line, "END RESOURCES") THEN Ok([l EXCEPT !.in_resources = FALSE])
    ELSE IF l.in_resources /\ Len(line) > 0 THEN
        IF Len(parts) >= 2
        THEN Ok([l EXCEPT !.resources = Put(@, parts[1], Tail(parts))])
        ELSE Ok(l)
    ELSE IF l.in_sitemap /\ Len(line) > 0 /\ ~StartsWith(line, "SITEMAP") THEN
        IF CanStore(l, parts) /\ IsInt(parts[1]) /\ IsInt(parts[2])
        THEN Ok([l EXCEPT !.site_map =
                              Append(@, [x |-> IntVal(parts[1]), y |-> IntVal(parts[2]),
                                         type |-> parts[3]]),
                          !.site_map_count = @ + 1])
        ELSE Ok(l)
    ELSE Ok(l)

\* return sites, resources, site_map, sitemap_dimensions (line 269), from the
\* loop's end and from the except clause alike.
ScResult(l) ==
    [sites |-> l.sites, resources |-> l.resources, site_map |-> l.site_map,
     sitemap_dimensions |-> l.sitemap_dimensions]

CntLocals == [site_type_counts |-> EmptyDict, in_sitemap |-> FALSE]

\* count_site_types_from_scl, one pass of the loop body, lines 303-316:
\* parts[2] is counted as it stands, x and y are not looked at.
CntLine(l, raw) ==
    LET line == Strip(raw) IN
    IF StartsWith(line, "SITEMAP") THEN Ok([l EXCEPT !.in_sitemap = TRUE])
    ELSE IF StartsWith(line, "END SITEMAP") THEN Ok([l EXCEPT !.in_sitemap = FALSE])
    ELSE IF l.in_sitemap /\ Len(line) > 0 /\ ~StartsWith(line, "SITEMAP") THEN
        LET parts == Split(line) IN
        IF Len(parts) >= 3
        THEN Ok([l EXCEPT !.site_type_counts = Incr(@, parts[3])])
        ELSE Ok(l)
    ELSE Ok(l)

\* return site_type_counts (line 321)
CntResult(l) == l.site_type_counts

\* An .scl file is kept as runs of equal lines, <<[line, reps], ...>>: the
\* lines are read one at a time all the same.
ScLen(f) == IF Len(f) = 0 THEN 0 ELSE SumOver([i \in 1..Len(f) |-> f[i].reps], 1..Len(f))

RECURSIVE ScAtFrom(_, _, _)
ScAtFrom(f, r, i) == IF i <= f[r].reps THEN f[r].line ELSE ScAtFrom(f, r + 1, i - f[r].reps)

\* The i-th line of the file.
ScAt(f, i) == ScAtFrom(f, 1, i)

Once(lines) == [i \in 1..Len(lines) |-> [line |-> lines[i], reps |-> 1]]

MaxSclLines == 3

ScLineSet == {"SITEMAP 2 2", "SITEMAP 3 1", "SITEMAP 3 x", "0 0 SLICE", "x 0 SLICE",
              "END SITEMAP", "SITE SLICE", "LUT 8", "LUT x", "END SITE",
              "RESOURCES", "END RESOURCES"}

\* A fabric large enough to fill the capped list: the header, one short of
\* max_site_map_entries equal triples, then two triples more.
ScLargeFiles ==
    {<<[line |-> "SITEMAP 200 200", reps |-> 1],
       [line |-> "0 0 SLICE", reps |-> max_site_map_entries - 1],
       [line |-> "1 1 IO", reps |-> 1],
       [line |-> "1 0 DSP", reps |-> 1]>>}

ScInit ==
    /\ file \in {Once(q) : q \in SeqsUpTo(ScLineSet, MaxSclLines)}
    /\ pos = 1
    /\ pc = "parse"
    /\ locals = ScLocals
    /\ ret = None
    /\ self = NewAnalyzer
    /\ env = Unused /\ proc = Unused

\* analyze_directory line 349: parse_scl_file reads one line, or leaves its
\* loop through the except clause and returns.
ScStep ==
    /\ pc = "parse" /\ pos <= ScLen(file)
    /\ LET r == ScLine(locals, ScAt(file, pos)) IN
        IF r.exc
        THEN /\ pc' = "count"
             /\ self' = SetAttrs(self, ScResult(r.st))
             /\ locals' = CntLocals
             /\ pos' = 1
             /\ ret' = [error |-> TRUE]
        ELSE /\ locals' = r.st
             /\ pos' = pos + 1
             /\ UNCHANGED <<pc, self, ret>>
    /\ UNCHANGED <<file, env, proc>>

ScReturn ==
    /\ pc = "parse" /\ pos > ScLen(file)
    /\ pc' = "count"
    /\ self' = SetAttrs(self, ScResult(locals))
    /\ locals' = CntLocals
    /\ pos' = 1
    /\ ret' = [error |-> FALSE]
    /\ UNCHANGED <<file, env, proc>>

\* analyze_directory line 352: the streaming counter over the same file.
CntStep ==
    /\ pc = "count" /\ pos <= ScLen(file)
    /\ locals' = CntLine(locals, ScAt(file, pos)).st
    /\ pos' = pos + 1
    /\ UNCHANGED <<file, pc, ret, self, env, proc>>

CntReturn ==
    /\ pc = "count" /\ pos > ScLen(file)
    /\ pc' = "done"
    /\ self' = SetAttrs(self, [site_type_counts |-> CntResult(locals)])
    /\ UNCHANGED <<file, pos, locals, ret, env, proc>>

ScNext == ScStep \/ ScReturn \/ CntStep \/ CntReturn

SpecScl == ScInit /\ [][ScNext]_vars

\* The call of parse_scl_file alone, on the small files and the large ones.
ScCapInit ==
    /\ file \in {Once(q) : q \in SeqsUpTo(ScLineSet, MaxSclLines)} \cup ScLargeFiles
    /\ pos = 1
    /\ pc = "parse"
    /\ locals = ScLocals
    /\ ret = None
    /\ self = NewAnalyzer
    /\ env = Unused /\ proc = Unused

ScCapNext == ScStep \/ ScReturn

SpecSclCap == ScCapInit /\ [][ScCapNext]_vars

\* C2: the number of entries the capped reader stored equals the streaming
\* counter's total when that total is at most 10000, and is exactly 10000
\* when the total is larger.
C2_StoredMatchesCounted ==
    pc = "done" =>
        LET stored == Len(self.site_map)
            total == Total(self.site_type_counts) IN
        /\ total <= 10000 => stored = total
        /\ total > 10000 => stored = 10000

\* C3: while the full-detail reader runs, the stored list has at most 10000
\* entries, as many as the stored-entry counter says, and a list of 10000
\* entries is left as it is by every further line.
C3_CappedSiteMap ==
    /\ [](pc = "parse" =>
            /\ Len(locals.site_map) <= 10000
            /\ Len(locals.site_map) = locals.site_map_count)
    /\ [][(pc = "parse" /\ pc' = "parse" /\ Len(locals.site_map) = 10000)
            => locals'.site_map = locals.site_map]_vars

\* The list is full and a further well-formed triple has been read in
\* sitemap mode without being stored.
C3_Witness ==
    /\ pc = "parse" /\ pos > 2
    /\ locals.in_sitemap /\ ~locals.in_resources
    /\ locals.site_map_count = 10000
    /\ LET p == Split(ScAt(file, pos - 1)) IN
        /\ Len(p) = 3 /\ IsInt(p[1]) /\ IsInt(p[2])
        /\ locals.site_map[10000] # [x |-> IntVal(p[1]), y |-> IntVal(p[2]), type |-> p[3]]

(***************************************************************************)
(* The readers as whole calls, and the readers no claim above steps through *)
(***************************************************************************)

RECURSIVE NetsLoop(_, _, _)
NetsLoop(l, lines, i) ==
    IF i > Len(lines) THEN l
    ELSE LET r == NetsLine(l, lines[i]) IN
         IF r.exc THEN r.st ELSE NetsLoop(r.st, lines, i + 1)

parse_nets_file(f) ==
    IF ~f.readable THEN NetsResult(NetsLocals)
    ELSE NetsResult(NetsLoop(NetsLocals, f.lines, 1))

RECURSIVE ScLoop(_, _, _)
ScLoop(l, lines, i) ==
    IF i > Len(lines) THEN l
    ELSE LET r == ScLine(l, lines[i]) IN
         IF r.exc THEN r.st ELSE ScLoop(r.st, lines, i + 1)

A_parse_scl_file(f) ==
    IF ~f.readable THEN ScResult(ScLocals)
    ELSE ScResult(ScLoop(ScLocals, f.lines, 1))

RECURSIVE CntLoop(_, _, _)
CntLoop(l, lines, i) ==
    IF i > Len(lines) THEN l
    ELSE CntLoop(CntLine(l, lines[i]).st, lines, i + 1)

count_site_types_from_scl(f) ==
    IF ~f.readable THEN CntResult(CntLocals)
    ELSE CntResult(CntLoop(CntLocals, f.lines, 1))

\* re.search(r'version\s+([^\s]+)', s): the token after the leftmost
\* `version` that white space and then a token follow; None without one.
RECURSIVE VersionSearch(_)
VersionSearch(s) ==
    IF Len(s) < 7 THEN None
    ELSE LET rest == SubSeq(s, 8, Len(s)) IN
         IF /\ StartsWith(s, "version")
            /\ Len(rest) > 0 /\ Head(rest) \in WhiteSpace
            /\ Len(LStrip(rest)) > 0
         THEN <<TakeWord(LStrip(rest))>>
         ELSE VersionSearch(Tail(s))

\* re.search(r'(\d{2}/\d{2}/\d{4})', s)
RECURSIVE DateSearch(_)
DateSearch(s) ==
    IF Len(s) < 10 THEN None
    ELSE IF /\ AllDigits(SubSeq(s, 1, 2)) /\ SubSeq(s, 3, 3) = "/"
            /\ AllDigits(SubSeq(s, 4, 5)) /\ SubSeq(s, 6, 6) = "/"
            /\ AllDigits(SubSeq(s, 7, 10))
         THEN <<SubSeq(s, 1, 10)>>
         ELSE DateSearch(Tail(s))

\* s.split(sep) for a one-character sep: the pieces between the separators.
RECURSIVE SplitOn(_, _, _)
SplitOn(s, sep, piece) ==
    IF Len(s) = 0 THEN <<piece>>
    ELSE IF Head(s) = sep THEN <<piece>> \o SplitOn(Tail(s), sep, "")
    ELSE SplitOn(Tail(s), sep, piece \o Head(s))

\* BookshelfAnalyzer.parse_aux_file, one pass of the loop body, lines 36-51.
AuxLine(l, raw) ==
    LET line == Strip(raw) IN
    IF StartsWith(line, "#") THEN
        IF Contains(line, "version") THEN
            LET version_match == VersionSearch(line)
                date_match == DateSearch(line)
                l1 == IF version_match # None
                      THEN Put(l, "version", version_match[1]) ELSE l
            IN Ok(IF date_match # None THEN Put(l1, "date", date_match[1]) ELSE l1)
        ELSE Ok(l)
    ELSE IF Contains(line, ":") THEN
        LET parts == SplitOn(line, ":", "") IN
        IF Len(parts) = 2
        THEN Ok(Put(Put(l, "design_name", Strip(parts[1])),
                    "included_files", Split(parts[2])))
        ELSE Ok(l)
    ELSE Ok(l)

RECURSIVE AuxLoop(_, _, _)
AuxLoop(l, lines, i) ==
    IF i > Len(lines) THEN l
    ELSE LET r == AuxLine(l, lines[i]) IN
         IF r.exc THEN r.st ELSE AuxLoop(r.st, lines, i + 1)

\* aux_data, a dict holding only the keys found (lines 29-56)
parse_aux_file(f) ==
    IF ~f.readable THEN EmptyDict ELSE AuxLoop(EmptyDict, f.lines, 1)

LibLocals == [cells |-> EmptyDict, current_cell |-> None]

\* The pin direction and attributes of lines 75-82: each INPUT / OUTPUT token
\* is assigned in turn, each CLOCK / CTRL token is appended.
RECURSIVE PinScan(_, _, _)
PinScan(attrs, pin_type, pin_attr) ==
    IF Len(attrs) = 0 THEN [type |-> pin_type, attributes |-> pin_attr]
    ELSE LET attr == Head(attrs) IN
         IF attr \in {"INPUT", "OUTPUT"} THEN PinScan(Tail(attrs), attr, pin_attr)
         ELSE IF attr \in {"CLOCK", "CTRL"}
              THEN PinScan(Tail(attrs), pin_type, Append(pin_attr, attr))
              ELSE PinScan(Tail(attrs), pin_type, pin_attr)

\* BookshelfAnalyzer.parse_lib_file, one pass of the loop body, lines 68-91.
\* current_cell is the key of the open cell.
LibLine(l, raw) ==
    LET line == Strip(raw)
        parts == Split(line) IN
    IF StartsWith(line, "CELL") THEN
        IF Len(parts) < 2 THEN Raise(l)
        ELSE Ok([cells |-> Put(l.cells, parts[2], [pins |-> <<>>, pin_count |-> 0]),
                 current_cell |-> <<parts[2]>>])
    ELSE IF StartsWith(line, "PIN") /\ l.current_cell # None THEN
        LET pin_info == Tail(parts) IN
        IF Len(pin_info) = 0 THEN Raise(l)
        ELSE LET scan == PinScan(Tail(pin_info), "INPUT", <<>>)
                 cell == l.current_cell[1] IN
             Ok([l EXCEPT !.cells[cell].pins =
                              Append(@, [name |-> pin_info[1], type |-> scan.type,
                                         attributes |-> scan.attributes]),
                          !.cells[cell].pin_count = @ + 1])
    ELSE IF StartsWith(line, "END CELL") THEN Ok([l EXCEPT !.current_cell = None])
    ELSE Ok(l)

RECURSIVE LibLoop(_, _, _)
LibLoop(l, lines, i) ==
    IF i > Len(lines) THEN l
    ELSE LET r == LibLine(l, lines[i]) IN
         IF r.exc THEN r.st ELSE LibLoop(r.st, lines, i + 1)

\* return cells (line 96)
parse_lib_file(f) ==
    IF ~f.readable THEN EmptyDict ELSE LibLoop(LibLocals, f.lines, 1).cells

\* float(t) succeeds, for the decimal forms digits[.digits] with an optional
\* sign (float() also takes exponents, inf and nan; no token here is one).
IsFloat(t) ==
    LET p == SplitOn(Unsigned(t), ".", "") IN
    /\ Len(p) <= 2
    /\ \A i \in 1..Len(p) : AllDigits(p[i])
    /\ \E i \in 1..Len(p) : Len(p[i]) > 0

\* float(t) in thousandths, for a t that IsFloat with at most 3 decimals.
MilliVal(t) ==
    LET p == SplitOn(Unsigned(t), ".", "")
        frac == IF Len(p) = 2 THEN p[2] ELSE ""
        scale == CASE Len(frac) = 0 -> 1000 [] Len(frac) = 1 -> 100
                   [] Len(frac) = 2 -> 10 [] OTHER -> 1
        mag == NatVal(p[1]) * 1000 + NatVal(frac) * scale IN
    IF Head(t) = "-" THEN 0 - mag ELSE mag

WtsLocals == [weights |-> EmptyDict, weight_count |-> 0]

\* BookshelfAnalyzer.parse_wts_file, one pass of the loop body, lines 281-288.
WtsLine(l, raw) ==
    LET line == Strip(raw) IN
    IF Len(line) > 0 /\ ~StartsWith(line, "#") THEN
        LET parts == Split(line) IN
        IF Len(parts) >= 2 THEN
            IF ~IsFloat(parts[2]) THEN Raise(l)
            ELSE Ok([weights |-> Put(l.weights, parts[1], MilliVal(parts[2])),
                     weight_count |-> l.weight_count + 1])
        ELSE Ok(l)
    ELSE Ok(l)

RECURSIVE WtsLoop(_, _, _)
WtsLoop(l, lines, i) ==
    IF i > Len(lines) THEN l
    ELSE LET r == WtsLine(l, lines[i]) IN
         IF r.exc THEN r.st ELSE WtsLoop(r.st, lines, i + 1)

\* return weights, weight_count (line 293)
parse_wts_file(f) ==
    IF ~f.readable THEN WtsLocals ELSE WtsLoop(WtsLocals, f.lines, 1)

\* fixed_elements_visualizer.parse_scl_file (lines 20-39): the dimensions of
\* the first SITEMAP line with 3 tokens; (0, 0) without one, and from the
\* except clause.
RECURSIVE FScLoop(_, _)
FScLoop(lines, i) ==
    IF i > Len(lines) THEN <<0, 0>>
    ELSE LET line == Strip(lines[i])
             parts == Split(line) IN
         IF StartsWith(line, "SITEMAP") /\ Len(parts) >= 3
         THEN IF IsInt(parts[2]) /\ IsInt(parts[3])
              THEN <<IntVal(parts[2]), IntVal(parts[3])>>
              ELSE <<0, 0>>
         ELSE FScLoop(lines, i + 1)

F_parse_scl_file(f) == IF ~f.readable THEN <<0, 0>> ELSE FScLoop(f.lines, 1)

\* fixed_elements_visualizer.parse_nodes_file (lines 72-91)
F_parse_nodes_file(f) ==
    IF ~f.readable THEN EmptyDict ELSE NodesLoop(NodesLocals, f.lines, 1).instances

\* scl_visualizer.parse_scl_file, the first loop (lines 36-43): the SITEMAP
\* dimensions, or that int() raised.
RECURSIVE SDimLoop(_, _)
SDimLoop(lines, i) ==
    IF i > Len(lines) THEN [exc |-> FALSE, width |-> 0, height |-> 0]
    ELSE LET line == Strip(lines[i])
             parts == Split(line) IN
         IF StartsWith(line, "SITEMAP") /\ Len(parts) >= 3
         THEN IF IsInt(parts[2]) /\ IsInt(parts[3])
              THEN [exc |-> FALSE, width |-> IntVal(parts[2]), height |-> IntVal(parts[3])]
              ELSE [exc |-> TRUE, width |-> 0, height |-> 0]
         ELSE SDimLoop(lines, i + 1)

\* scl_visualizer.parse_scl_file, the second loop (lines 46-59): a triple
\* from every line that is no SITE / RESOURCES / SITEMAP line, has 3 tokens
\* and integer x and y.
RECURSIVE STripleLoop(_, _, _)
STripleLoop(l, lines, i) ==
    IF i > Len(lines) THEN l
    ELSE LET line == Strip(lines[i])
             parts == Split(line) IN
         IF /\ Len(line) > 0 /\ ~StartsWith(line, "SITE")
            /\ ~StartsWith(line, "RESOURCES") /\ ~StartsWith(line, "SITEMAP")
            /\ Len(parts) >= 3 /\ IsInt(parts[1]) /\ IsInt(parts[2])
         THEN STripleLoop([sites |-> Append(l.sites, <<IntVal(parts[1]), IntVal(parts[2]), parts[3]>>),
                           site_types |-> l.site_types \cup {parts[3]}],
                          lines, i + 1)
         ELSE STripleLoop(l, lines, i + 1)

SEmpty == [width |-> 0, height |-> 0, sites |-> <<>>, site_types |-> {}]

\* scl_visualizer.parse_scl_file (lines 26-68)
S_parse_scl_file(f) ==
    IF ~f.readable THEN SEmpty
    ELSE LET d == SDimLoop(f.lines, 1) IN
         IF d.exc THEN SEmpty
         ELSE LET t == STripleLoop([sites |-> <<>>, site_types |-> {}], f.lines, 1) IN
              [width |-> d.width, height |-> d.height,
               sites |-> t.sites, site_types |-> t.site_types]

(***************************************************************************)
(* The three programs: main() of each, run on a directory or a file         *)
(***************************************************************************)

\* A path of the run: whether it exists, whether open() succeeds on it, and
\* its lines.
Missing == [exists |-> FALSE, readable |-> FALSE, lines |-> <<>>]
Unreadable == [exists |-> TRUE, readable |-> FALSE, lines |-> <<>>]

\* min(values) / max(values) of a non-empty dict's values
MinOf(S) == CHOOSE x \in S : \A y \in S : x <= y
MaxOf(S) == CHOOSE x \in S : \A y \in S : x >= y
Values(d) == {d[k] : k \in DOMAIN d}

\* analyze_directory, lines 336 and 345-352: each reader on its file if that
\* exists, its empty value otherwise, the results kept as attributes.
ReadAux(slf, fs) == SetAttrs(slf, [aux_data |-> parse_aux_file(fs.aux)])

ReadLib(slf, fs) ==
    SetAttrs(slf, [cells |-> IF fs.lib.exists THEN parse_lib_file(fs.lib) ELSE EmptyDict])

ReadNodes(slf, fs) ==
    SetAttrs(slf, IF fs.nodes.exists THEN parse_nodes_file(fs.nodes)
                  ELSE NodesResult(NodesLocals))

ReadNets(slf, fs) ==
    SetAttrs(slf, IF fs.nets.exists THEN parse_nets_file(fs.nets)
                  ELSE NetsResult(NetsLocals))

ReadPl(slf, fs) ==
    SetAttrs(slf, IF fs.pl.exists THEN A_parse_pl_file(fs.pl, slf)
                  ELSE APlResult(APlLocals))

ReadScl(slf, fs) ==
    SetAttrs(slf, IF fs.scl.exists THEN A_parse_scl_file(fs.scl) ELSE ScResult(ScLocals))

ReadWts(slf, fs) ==
    SetAttrs(slf, IF fs.wts.exists THEN parse_wts_file(fs.wts) ELSE WtsLocals)

CountSites(slf, fs) ==
    SetAttrs(slf, [site_type_counts |->
                       IF fs.scl.exists THEN count_site_types_from_scl(fs.scl)
                       ELSE EmptyDict])

\* analyze_directory, lines 354-371: the attributes gathered into
\* analysis_results.
Gather(slf, design_name) ==
    SetAttrs(slf, [analysis_results |->
        [design_name |-> design_name, aux_data |-> slf.aux_data,
         cells |-> slf.cells, instances |-> slf.instances,
         instance_types |-> slf.instance_types, nets |-> slf.nets,
         net_count |-> slf.net_count, fixed_instances |-> slf.fixed_instances,
         fixed_types |-> slf.fixed_types, sites |-> slf.sites,
         resources |-> slf.resources, site_map |-> slf.site_map,
         sitemap_dimensions |-> slf.sitemap_dimensions,
         site_type_counts |-> slf.site_type_counts,
         weights |-> slf.weights, weight_count |-> slf.weight_count]])

\* return self.analysis_results (line 373)
Returned(slf) == [self |-> slf, results |-> <<slf.analysis_results>>]

\* analyze_directory past the .aux lookup (lines 333-373)
AnalyzeBody(slf, e) ==
    Returned(Gather(
        CountSites(ReadWts(ReadScl(ReadPl(ReadNets(ReadNodes(ReadLib(ReadAux(
            slf, e.files), e.files), e.files), e.files), e.files), e.files), e.files),
            e.files),
        e.design))

\* analyze_directory treating a missing .nodes file like a missing .aux file.
analyze_directory_strict(slf, e) ==
    IF ~e.files.aux.exists \/ ~e.files.nodes.exists
    THEN [self |-> slf, results |-> None]
    ELSE AnalyzeBody(slf, e)

\* BookshelfAnalyzer.analyze_directory (lines 323-373): None with no .aux
\* file in the directory.
analyze_directory(slf, e) ==
    IF ~e.files.aux.exists
    THEN [self |-> slf, results |-> None]
    ELSE AnalyzeBody(slf, e)

\* generate_text_report, lines 415-422: the NETS section, Total Nets from
\* net_count and the pin statistics over the stored nets.
ReportNets(nets, net_count) ==
    [total_nets |-> net_count,
     pin_stats |-> IF DOMAIN nets # {}
                   THEN LET pin_counts == [n \in DOMAIN nets |-> nets[n].pin_count] IN
                        <<[sum |-> Total(pin_counts), len |-> Cardinality(DOMAIN nets),
                           min |-> MinOf(Values(pin_counts)),
                           max |-> MaxOf(Values(pin_counts))]>>
                   ELSE None]

\* generate_text_report (lines 381-486): the figures the report's lines
\* show, section by section.
ReportOf(r) ==
    [design_name |-> r.design_name,
     version |-> IF "version" \in DOMAIN r.aux_data THEN r.aux_data.version ELSE "Unknown",
     date |-> IF "date" \in DOMAIN r.aux_data THEN r.aux_data.date ELSE "Unknown",
     included_files |-> IF "included_files" \in DOMAIN r.aux_data
                        THEN r.aux_data.included_files ELSE <<>>,
     total_cell_types |-> Cardinality(DOMAIN r.cells),
     cell_pins |-> [c \in DOMAIN r.cells |-> r.cells[c].pin_count],
     total_nodes |-> Cardinality(DOMAIN r.instances),
     node_types |-> r.instance_types,
     total_nets |-> ReportNets(r.nets, r.net_count).total_nets,
     pin_stats |-> ReportNets(r.nets, r.net_count).pin_stats,
     total_fixed |-> Cardinality(DOMAIN r.fixed_instances),
     fixed_types |-> r.fixed_types,
     total_site_types |-> Cardinality(DOMAIN r.sites),
     sites |-> r.sites,
     total_resource_types |-> Cardinality(DOMAIN r.resources),
     resources |-> r.resources,
     dimensions |-> r.sitemap_dimensions,
     total_sites |-> Total(r.site_type_counts),
     site_type_counts |-> r.site_type_counts,
     total_weights |-> r.weight_count,
     weight_stats |-> IF DOMAIN r.weights # {}
                      THEN <<[sum |-> Total(r.weights), len |-> Cardinality(DOMAIN r.weights),
                              min |-> MinOf(Values(r.weights)),
                              max |-> MaxOf(Values(r.weights))]>>
                      ELSE None]

\* create_fixed_elements_visualization saving the figure before the grid is
\* allocated.
CreateFixedSaveFirst(width, height, fixed_instances, instance_types, output_file, show_plot) ==
    IF width = 0 \/ height = 0 THEN [exc |-> FALSE, saved |-> {}, shown |-> FALSE]
    ELSE IF Len(fixed_instances) = 0 THEN [exc |-> FALSE, saved |-> {}, shown |-> FALSE]
    ELSE IF width < 0 \/ height < 0 THEN [exc |-> TRUE, saved |-> {output_file}, shown |-> FALSE]
    ELSE [exc |-> FALSE, saved |-> {output_file},
          shown |-> show_plot /\ width * height <= 5000]

\* create_fixed_elements_visualization (lines 94-222), as far as the process
\* sees it: the two early returns, np.full((height, width)) raising on a
\* negative dimension (line 139), the figure saved (line 213) and shown
\* (line 217).
create_fixed_elements_visualization(width, height, fixed_instances, instance_types, output_file, show_plot) ==
    IF width = 0 \/ height = 0 THEN [exc |-> FALSE, saved |-> {}, shown |-> FALSE]
    ELSE IF Len(fixed_instances) = 0 THEN [exc |-> FALSE, saved |-> {}, shown |-> FALSE]
    ELSE IF width < 0 \/ height < 0 THEN [exc |-> TRUE, saved |-> {}, shown |-> FALSE]
    ELSE [exc |-> FALSE, saved |-> {output_file},
          shown |-> show_plot /\ width * height <= 5000]

\* create_site_visualization (lines 71-173), as far as the process sees it:
\* the early return, np.full raising on a negative dimension (line 95), the
\* figure saved (line 164) and shown (line 168).
create_site_visualization(width, height, sites, site_types, output_file, show_plot) ==
    IF width = 0 \/ height = 0 THEN [exc |-> FALSE, saved |-> {}, shown |-> FALSE]
    ELSE IF width < 0 \/ height < 0 THEN [exc |-> TRUE, saved |-> {}, shown |-> FALSE]
    ELSE [exc |-> FALSE, saved |-> {output_file},
          shown |-> show_plot /\ width * height <= 5000]

NewProcess == [exit_status |-> None, stdout_report |-> None, artifacts |-> {}, shown |-> FALSE]

\* sys.exit(n), the end of main() (status 0), an uncaught exception (status 1)
Exited(p, n) == [p EXCEPT !.exit_status = <<n>>]

(* The surroundings of a run *)
Existing(lines) == [exists |-> TRUE, readable |-> TRUE, lines |-> lines]
GoodAux == Existing(<<"# version 2.0 01/02/2024", "design : design.nodes design.pl">>)
GoodLib == Existing(<<"CELL LUT6", "PIN p1", "PIN p2 OUTPUT CLOCK", "END CELL">>)
BadLib == Existing(<<"CELL LUT6", "PIN p1", "PIN", "CELL FF">>)
GoodNodes == Existing(<<"I1 LUT6", "I3 FF">>)
GoodNets == Existing(<<"net N1 2", "\tI1 A", "\tI3 B", "endnet">>)
BadNets == Existing(<<"net N1 2", "endnet", "net N2 x">>)
GoodPl == Existing(<<"I1 0 0 0 FIXED", "I7 1 1 0 FIXED", "I3 1 0 0">>)
BadPl == Existing(<<"I1 0 0 0 FIXED", "I2 x 3 0 FIXED">>)
NoFixedPl == Existing(<<"I2 3 3 0">>)
GoodScl == Existing(<<"SITE SLICE", "LUT 8", "END SITE", "SITEMAP 2 2", "0 0 SLICE",
                    "1 1 SLICE", "END SITEMAP">>)
BadScl == Existing(<<"SITEMAP 2 2", "0 0 SLICE", "END SITEMAP", "SITE SLICE", "LUT x">>)
NoDimsScl == Existing(<<"0 0 SLICE">>)
ZeroScl == Existing(<<"SITEMAP 0 2", "0 0 SLICE">>)
NegativeScl == Existing(<<"SITEMAP -2 2", "0 0 SLICE">>)
BadDimsScl == Existing(<<"SITEMAP x 2", "0 0 SLICE">>)
GoodWts == Existing(<<"N1 0.5", "N2 2">>)
BadWts == Existing(<<"N1 0.5", "N2 x">>)

NoFiles == [aux |-> Missing, lib |-> Missing, nodes |-> Missing, nets |-> Missing,
            pl |-> Missing, scl |-> Missing, wts |-> Missing]

AnalyzerEnvs ==
    {[program |-> "analyzer", design |-> "design", dir_exists |-> FALSE,
      files |-> NoFiles, report |-> r, output |-> None, show |-> FALSE] :
        r \in {None, <<"report.txt">>}}
    \cup
    {[program |-> "analyzer", design |-> "design", dir_exists |-> TRUE,
      files |-> fs, report |-> r, output |-> None, show |-> FALSE] :
        fs \in [aux : {Missing, GoodAux, Unreadable},
                lib : {Missing, GoodLib, BadLib},
                nodes : {Missing, GoodNodes, Unreadable},
                nets : {Missing, GoodNets, BadNets},
                pl : {Missing, GoodPl, BadPl},
                scl : {Missing, GoodScl, BadScl, NegativeScl},
                wts : {Missing, GoodWts, BadWts}],
        r \in {None, <<"report.txt">>}}

FixedEnvs ==
    {[program |-> "fixed_elements", design |-> "design", dir_exists |-> FALSE,
      files |-> NoFiles, report |-> None, output |-> None, show |-> FALSE]}
    \cup
    {[program |-> "fixed_elements", design |-> "design", dir_exists |-> TRUE,
      files |-> [NoFiles EXCEPT !.aux = a, !.nodes = n, !.pl = p, !.scl = c],
      report |-> None, output |-> o, show |-> sh] :
        a \in {Missing, GoodAux},
        n \in {Missing, GoodNodes, Unreadable},
        p \in {Missing, GoodPl, BadPl, NoFixedPl},
        c \in {Missing, GoodScl, NoDimsScl, ZeroScl, NegativeScl, BadDimsScl, Unreadable},
        o \in {None, <<"out.png">>},
        sh \in BOOLEAN}

SiteMapEnvs ==
    {[program |-> "site_map", design |-> "design", dir_exists |-> TRUE,
      files |-> [NoFiles EXCEPT !.scl = c], report |-> None, output |-> o, show |-> sh] :
        c \in {Missing, GoodScl, BadScl, NoDimsScl, ZeroScl, NegativeScl, BadDimsScl,
               Unreadable},
        o \in {None, <<"out.png">>},
        sh \in BOOLEAN}

RunInit ==
    /\ env \in AnalyzerEnvs \cup FixedEnvs \cup SiteMapEnvs
    /\ pc = "main"
    /\ proc = NewProcess
    /\ self = None
    /\ locals = None
    /\ file = Unused /\ pos = 0 /\ ret = None

\* bookshelf_analyzer.main, lines 506-510
AMainStart ==
    /\ env.program = "analyzer" /\ pc = "main"
    /\ IF ~env.dir_exists
       THEN pc' = "exit" /\ proc' = Exited(proc, 1) /\ self' = self
       ELSE pc' = "analyze" /\ self' = NewAnalyzer /\ proc' = proc
    /\ UNCHANGED <<file, pos, locals, ret, env>>

\* bookshelf_analyzer.main, lines 513-515, `a` what analyze_directory left
AMainAnalyzed(a) ==
    /\ self' = a.self
    /\ locals' = [results |-> a.results]
    /\ IF a.results = None
       THEN pc' = "exit" /\ proc' = Exited(proc, 1)
       ELSE pc' = "report" /\ proc' = proc

\* bookshelf_analyzer.main, lines 511-515
AMainAnalyze ==
    /\ env.program = "analyzer" /\ pc = "analyze"
    /\ AMainAnalyzed(analyze_directory(self, env))
    /\ UNCHANGED <<file, pos, ret, env>>

\* bookshelf_analyzer.main, line 517: generate_text_report(args.report)
\* prints the report and, with a path given, writes it there (lines 488-493).
AMainReport ==
    /\ env.program = "analyzer" /\ pc = "report"
    /\ LET report == ReportOf(self.analysis_results) IN
        proc' = Exited([proc EXCEPT !.stdout_report = <<report>>,
                                    !.artifacts = IF env.report # None
                                                  THEN @ \cup {env.report[1]} ELSE @],
                       0)
    /\ pc' = "exit"
    /\ UNCHANGED <<file, pos, locals, ret, self, env>>

\* fixed_elements_visualizer.main, lines 233-258
FMainChecks ==
    /\ env.program = "fixed_elements" /\ pc = "main"
    /\ IF \/ ~env.dir_exists
          \/ ~env.files.aux.exists
          \/ ~env.files.scl.exists
          \/ ~env.files.pl.exists
       THEN pc' = "exit" /\ proc' = Exited(proc, 1)
       ELSE pc' = "parse" /\ proc' = proc
    /\ UNCHANGED <<file, pos, locals, ret, self, env>>

\* fixed_elements_visualizer.main, lines 261-274
FMainParse ==
    /\ env.program = "fixed_elements" /\ pc = "parse"
    /\ LET dims == F_parse_scl_file(env.files.scl)
           fixed_instances == F_parse_pl_file(env.files.pl)
           instance_types == IF env.files.nodes.exists
                             THEN F_parse_nodes_file(env.files.nodes) ELSE EmptyDict IN
        /\ locals' = [width |-> dims[1], height |-> dims[2],
                      fixed_instances |-> fixed_instances,
                      instance_types |-> instance_types]
        /\ IF dims[1] = 0 \/ dims[2] = 0
           THEN pc' = "exit" /\ proc' = Exited(proc, 1)
           ELSE pc' = "visualize" /\ proc' = proc
    /\ UNCHANGED <<file, pos, ret, self, env>>

\* fixed_elements_visualizer.main, lines 276-290
FMainVisualize ==
    /\ env.program = "fixed_elements" /\ pc = "visualize"
    /\ LET output == IF env.output = None
                     THEN env.design \o "_fixed_elements.png" ELSE env.output[1]
           v == create_fixed_elements_visualization(
                    locals.width, locals.height, locals.fixed_instances,
                    locals.instance_types, output, env.show) IN
        proc' = Exited([proc EXCEPT !.artifacts = @ \cup v.saved, !.shown = v.shown],
                       IF v.exc THEN 1 ELSE 0)
    /\ pc' = "exit"
    /\ UNCHANGED <<file, pos, locals, ret, self, env>>

\* scl_visualizer.main, lines 185-187
SMainCheck ==
    /\ env.program = "site_map" /\ pc = "main"
    /\ IF ~env.files.scl.exists
       THEN pc' = "exit" /\ proc' = Exited(proc, 1)
       ELSE pc' = "parse" /\ proc' = proc
    /\ UNCHANGED <<file, pos, locals, ret, self, env>>

\* scl_visualizer.main, lines 190-195
SMainParse ==
    /\ env.program = "site_map" /\ pc = "parse"
    /\ LET r == S_parse_scl_file(env.files.scl) IN
        /\ locals' = r
        /\ IF r.width = 0 \/ r.height = 0
           THEN pc' = "exit" /\ proc' = Exited(proc, 1)
           ELSE pc' = "visualize" /\ proc' = proc
    /\ UNCHANGED <<file, pos, ret, self, env>>

\* scl_visualizer.main, lines 197-208
SMainVisualize ==
    /\ env.program = "site_map" /\ pc = "visualize"
    /\ LET output == IF env.output = None
                     THEN env.design \o "_sitemap.png" ELSE env.output[1]
           v == create_site_visualization(locals.width, locals.height, locals.sites,
                                          locals.site_types, output, env.show) IN
        proc' = Exited([proc EXCEPT !.artifacts = @ \cup v.saved, !.shown = v.shown],
                       IF v.exc THEN 1 ELSE 0)
    /\ pc' = "exit"
    /\ UNCHANGED <<file, pos, locals, ret, self, env>>

RunNext ==
    \/ AMainStart \/ AMainAnalyze \/ AMainReport
    \/ FMainChecks \/ FMainParse \/ FMainVisualize
    \/ SMainCheck \/ SMainParse \/ SMainVisualize

SpecRun == RunInit /\ [][RunNext]_vars

(***************************************************************************)
(* Properties of the runs                                                   *)
(***************************************************************************)

RunFailed == proc.exit_status # None /\ proc.exit_status # <<0>>

\* C6: a run of any of the three programs that has ended with a non-zero exit
\* status has written no output artifact, neither report file nor image.
C6_NoArtifactOnFailure == RunFailed => proc.artifacts = {}

\* The last of the fatal checks: the fixed-elements program, past the checks
\* on the directory, the .aux, the .scl and the .pl, stopped by a zero
\* dimension.
C6_Witness ==
    /\ env.program = "fixed_elements" /\ pc = "exit"
    /\ env.files.scl.exists /\ env.files.pl.exists
    /\ locals # None /\ locals.width = 0
    /\ proc.exit_status = <<1>>
    /\ proc.artifacts = {}

\* The entities a sibling file contributes to the results are empty.
EmptyFor(r, ext) ==
    CASE ext = "lib" -> DOMAIN r.cells = {}
      [] ext = "nodes" -> DOMAIN r.instances = {} /\ DOMAIN r.instance_types = {}
      [] ext = "nets" -> DOMAIN r.nets = {} /\ r.net_count = 0
      [] ext = "pl" -> DOMAIN r.fixed_instances = {} /\ DOMAIN r.fixed_types = {}
      [] ext = "scl" -> /\ DOMAIN r.sites = {} /\ DOMAIN r.resources = {}
                        /\ Len(r.site_map) = 0 /\ r.sitemap_dimensions = None
                        /\ DOMAIN r.site_type_counts = {}
      [] ext = "wts" -> DOMAIN r.weights = {} /\ r.weight_count = 0

Siblings == {"lib", "nodes", "nets", "pl", "scl", "wts"}

\* The report prints the results of the analysis.
ReportProduced ==
    /\ proc.stdout_report = <<ReportOf(self.analysis_results)>>
    /\ env.report # None => env.report[1] \in proc.artifacts

\* C7: an Analyzer run has exit status 1 exactly when the directory or the
\* .aux file is missing; otherwise, whichever sibling files are missing and
\* whatever parse errors the present ones hold, it produces the report and
\* exits with status 0, the entities of every missing file empty.
C7_OnlyAuxIsFatal ==
    (env.program = "analyzer" /\ pc = "exit") =>
        /\ proc.exit_status \in {<<0>>, <<1>>}
        /\ proc.exit_status = <<1>> <=> (~env.dir_exists \/ ~env.files.aux.exists)
        /\ (env.dir_exists /\ env.files.aux.exists) =>
              /\ proc.exit_status = <<0>>
              /\ ReportProduced
              /\ \A ext \in Siblings :
                    ~env.files[ext].exists => EmptyFor(self.analysis_results, ext)

\* A run with the .nodes file missing and a .pl file whose second line
\* raises, ended with status 0 and the report written.
C7_Witness ==
    /\ env.program = "analyzer" /\ pc = "exit"
    /\ env.dir_exists /\ env.files.aux.exists
    /\ ~env.files.nodes.exists /\ ~env.files.wts.exists
    /\ env.files.pl = BadPl
    /\ env.report # None
    /\ proc.exit_status = <<0>>
    /\ ReportProduced
    /\ EmptyFor(self.analysis_results, "nodes")
    /\ proc.stdout_report[1].total_nodes = 0
    /\ proc.stdout_report[1].total_fixed = 1

(***************************************************************************)
(* fixed_elements_visualizer.create_fixed_elements_visualization, drawn     *)
(* instance by instance                                                     *)
(***************************************************************************)

\* The characters of the names used here, in code point order.
Alphabet == "#0123456789ABCDEFGHIJKLMNOPQRSTUVWXYZ_abcdefghijklmnopqrstuvwxyz"

Ord(c) == CHOOSE i \in 1..Len(Alphabet) : SubSeq(Alphabet, i, i) = c

\* a < b for str: the first differing character decides, a proper prefix is
\* smaller.
RECURSIVE StrLess(_, _)
StrLess(a, b) ==
    IF Len(b) = 0 THEN FALSE
    ELSE IF Len(a) = 0 THEN TRUE
    ELSE IF Head(a) = Head(b) THEN StrLess(Tail(a), Tail(b))
    ELSE Ord(Head(a)) < Ord(Head(b))

\* sorted(S) for a set of strings
RECURSIVE Sorted(_)
Sorted(S) ==
    IF S = {} THEN <<>>
    ELSE LET least == CHOOSE a \in S : \A b \in S \ {a} : StrLess(a, b) IN
         <<least>> \o Sorted(S \ {least})

\* The palette with fifteen different colors.
PaletteNoRepeat ==
    <<"#FF6B6B", "#4ECDC4", "#45B7D1", "#96CEB4", "#FFEAA7",
      "#DDA0DD", "#98D8C8", "#F7DC6F", "#BB8FCE", "#85C1E9",
      "#F8C471", "#82E0AA", "#F1948A", "#AED6F1", "#D7BDE2">>

\* Lines 105-109.  Python counts the entries from 0, this tuple from 1.
INSTANCE_COLORS_PALETTE ==
    <<"#FF6B6B", "#4ECDC4", "#45B7D1", "#96CEB4", "#FFEAA7",
      "#DDA0DD", "#98D8C8", "#F7DC6F", "#BB8FCE", "#85C1E9",
      "#F8C471", "#82E0AA", "#F1948A", "#85C1E9", "#D7BDE2">>

\* Lines 114-117 and 194-197: what an instance is counted as.
Classification(instance, instance_types) ==
    IF instance.name \in DOMAIN instance_types
    THEN instance_types[instance.name]
    ELSE "UNKNOWN"

\* Lines 112-117 and 192-197: the Counter over the instances' classifications.
RECURSIVE TypeCounts(_, _)
TypeCounts(fixed_instances, instance_types) ==
    IF Len(fixed_instances) = 0 THEN EmptyDict
    ELSE Incr(TypeCounts(SubSeq(fixed_instances, 1, Len(fixed_instances) - 1),
                         instance_types),
              Classification(fixed_instances[Len(fixed_instances)], instance_types))

\* enumerate(seq): the 0-based index of t in seq
IndexOf(seq, t) == (CHOOSE i \in 1..Len(seq) : seq[i] = t) - 1

\* Lines 111-126: the type-to-color map; {'FIXED': ...} with no type map.
InstanceColors(fixed_instances, instance_types) ==
    IF DOMAIN instance_types # {}
    THEN LET keys == Sorted(DOMAIN TypeCounts(fixed_instances, instance_types)) IN
         [t \in DOMAIN TypeCounts(fixed_instances, instance_types) |->
             INSTANCE_COLORS_PALETTE[(IndexOf(keys, t) % Len(INSTANCE_COLORS_PALETTE)) + 1]]
    ELSE [t \in {"FIXED"} |-> "#FF6B6B"]

\* Lines 144-149: the fill color of a drawn instance.
FillColor(instance, instance_types, instance_colors) ==
    IF DOMAIN instance_types # {} /\ instance.name \in DOMAIN instance_types
    THEN IF instance_types[instance.name] \in DOMAIN instance_colors
         THEN instance_colors[instance_types[instance.name]]
         ELSE "#FF6B6B"
    ELSE "#FF6B6B"

\* Line 143, drawing whatever lies at or above the origin.
InBoundsNoUpper(x, y, width, height) == 0 <= x /\ 0 <= y

\* Line 143
InBounds(x, y, width, height) == 0 <= x /\ x < width /\ 0 <= y /\ y < height

\* Lines 139-160, one pass of the drawing loop: a rectangle added and the
\* grid cell marked, for an instance inside the fabric only.
DrawInstance(l, instance) ==
    IF InBounds(instance.x, instance.y, l.width, l.height)
    THEN [l EXCEPT
            !.patches = Append(@, [x |-> instance.x, y |-> instance.y,
                                   facecolor |-> FillColor(instance, l.instance_types,
                                                           l.instance_colors),
                                   name |-> instance.name]),
            !.grid = Put(@, <<instance.y, instance.x>>, instance.name)]
    ELSE l

\* Lines 176-206: the legend, when there is a type map and at most ten
\* colors, and the figures of the statistics text.
Overlay(l) ==
    [l EXCEPT
        !.legend = IF DOMAIN l.instance_types # {}
                      /\ Cardinality(DOMAIN l.instance_colors) <= 10
                   THEN <<l.instance_colors>> ELSE None,
        !.stats_text =
            <<[total_fixed |-> Len(l.fixed_instances),
               covered |-> Len(l.fixed_instances),
               sites |-> l.width * l.height,
               by_type |-> IF DOMAIN l.instance_types # {}
                           THEN <<TypeCounts(l.fixed_instances, l.instance_types)>>
                           ELSE None]>>]

\* The locals once the color map is made and the empty grid allocated
\* (lines 111-139).
DrawLocals(width, height, fixed_instances, instance_types) ==
    [width |-> width, height |-> height, fixed_instances |-> fixed_instances,
     instance_types |-> instance_types,
     instance_colors |-> InstanceColors(fixed_instances, instance_types),
     patches |-> <<>>,
     grid |-> [c \in (0..(height - 1)) \X (0..(width - 1)) |-> ""],
     legend |-> None, stats_text |-> None]

(* What the function is called with *)
MaxFixed == 3

DrawNames == {"I1", "I2"}
DrawXs == {-1, 0, 2}
DrawYs == {0, 1}
DrawDims == {<<2, 2>>, <<3, 1>>, <<0, 2>>}

DrawInstances ==
    [name : DrawNames, x : DrawXs, y : DrawYs, bel : {0}]

DrawTypeMaps ==
    {EmptyDict,
     [n \in {"I1"} |-> "LUT6"],
     [n \in {"I1", "I2", "I9"} |-> IF n = "I1" THEN "ZZ" ELSE "FF"]}

\* A design with more cell types than the palette has entries: instance Nk
\* of type T(ManyTypes + 1 - k), two digits each.
ManyTypes == 16

DigitChar(d) == SubSeq("0123456789", d + 1, d + 1)
TwoDigit(n) == DigitChar(n \div 10) \o DigitChar(n % 10)

ManyFixed ==
    [k \in 1..ManyTypes |-> [name |-> "N" \o TwoDigit(k), x |-> k % 2, y |-> 0, bel |-> 0]]

ManyTypeMap ==
    [n \in {"N" \o TwoDigit(k) : k \in 1..ManyTypes} |->
        "T" \o TwoDigit(ManyTypes + 1 - (CHOOSE k \in 1..ManyTypes : n = "N" \o TwoDigit(k)))]

DrawArgs ==
    {[width |-> d[1], height |-> d[2], fixed_instances |-> f, instance_types |-> t] :
        d \in DrawDims, f \in SeqsUpTo(DrawInstances, MaxFixed), t \in DrawTypeMaps}
    \cup
    {[width |-> 2, height |-> 2, fixed_instances |-> ManyFixed,
      instance_types |-> ManyTypeMap]}

DrawInit ==
    /\ locals \in DrawArgs
    /\ pc = "called"
    /\ pos = 1
    /\ file = Unused /\ ret = None /\ self = Unused /\ env = Unused /\ proc = Unused

\* Lines 96-139: the two early returns, then the color map and the grid.
DrawStart ==
    /\ pc = "called"
    /\ IF locals.width = 0 \/ locals.height = 0 \/ Len(locals.fixed_instances) = 0
       THEN pc' = "returned" /\ locals' = locals
       ELSE /\ pc' = "draw"
            /\ locals' = DrawLocals(locals.width, locals.height,
                                    locals.fixed_instances, locals.instance_types)
    /\ UNCHANGED <<file, pos, ret, self, env, proc>>

\* Lines 141-160, one instance
DrawStep ==
    /\ pc = "draw" /\ pos <= Len(locals.fixed_instances)
    /\ locals' = DrawInstance(locals, locals.fixed_instances[pos])
    /\ pos' = pos + 1
    /\ UNCHANGED <<file, pc, ret, self, env, proc>>

\* Lines 162-206, after the last instance
DrawOverlay ==
    /\ pc = "draw" /\ pos > Len(locals.fixed_instances)
    /\ locals' = Overlay(locals)
    /\ pc' = "drawn"
    /\ UNCHANGED <<file, pos, ret, self, env, proc>>

DrawNext == DrawStart \/ DrawStep \/ DrawOverlay

SpecDraw == DrawInit /\ [][DrawNext]_vars

(***************************************************************************)
(* Properties of the drawing                                                *)
(***************************************************************************)

\* The instances the drawing loop has taken so far that lie inside the fabric.
DrawnSoFar ==
    LET Inside(i) == /\ 0 <= i.x /\ i.x < locals.width
                     /\ 0 <= i.y /\ i.y < locals.height IN
    SelectSeq(SubSeq(locals.fixed_instances, 1, pos - 1), Inside)

\* C11: a fixed instance is drawn if and only if 0 <= x < width and
\* 0 <= y < height: the rectangles are those of the instances inside the
\* fabric, in order, and the marked grid cells are their cells; an instance
\* outside adds nothing, yet the statistics count every fixed instance.
C11_DrawnIffInBounds ==
    pc \in {"draw", "drawn"} =>
        /\ Len(locals.patches) = Len(DrawnSoFar)
        /\ \A k \in 1..Len(DrawnSoFar) :
              /\ locals.patches[k].x = DrawnSoFar[k].x
              /\ locals.patches[k].y = DrawnSoFar[k].y
              /\ locals.patches[k].name = DrawnSoFar[k].name
        /\ \A c \in DOMAIN locals.grid :
              locals.grid[c] # "" <=>
                  \E k \in 1..Len(DrawnSoFar) : c = <<DrawnSoFar[k].y, DrawnSoFar[k].x>>
        /\ DOMAIN locals.grid = (0..(locals.height - 1)) \X (0..(locals.width - 1))
        /\ pc = "drawn" =>
              locals.stats_text[1].total_fixed = Len(locals.fixed_instances)

\* Three instances, one at x = -1, one at x = width, one inside: one
\* rectangle, one marked cell, and a total of three.
C11_Witness ==
    /\ pc = "drawn"
    /\ Len(locals.fixed_instances) = 3
    /\ \E i \in 1..3 : locals.fixed_instances[i].x = -1
    /\ \E i \in 1..3 : locals.fixed_instances[i].x = locals.width
    /\ Len(locals.patches) = 1
    /\ Cardinality({c \in DOMAIN locals.grid : locals.grid[c] # ""}) = 1
    /\ locals.stats_text[1].total_fixed = 3

\* The i-th type in lexicographic order gets palette entry i mod 15.
ColorsRoundRobin ==
    LET keys == Sorted(DOMAIN locals.instance_colors) IN
    \A i \in 1..Len(keys) :
        locals.instance_colors[keys[i]] = INSTANCE_COLORS_PALETTE[((i - 1) % 15) + 1]

\* C18: with a non-empty type map, every drawn instance is filled with the
\* color the type-to-color map gives its classification (its cell type, or
\* UNKNOWN when its name is not in the type map), the map assigning the
\* palette round-robin to the types in lexicographic order.
C18_FilledWithLegendColor ==
    (pc \in {"draw", "drawn"} /\ DOMAIN locals.instance_types # {}) =>
        /\ ColorsRoundRobin
        /\ \A k \in 1..Len(locals.patches) :
              LET class == IF locals.patches[k].name \in DOMAIN locals.instance_types
                           THEN locals.instance_types[locals.patches[k].name]
                           ELSE "UNKNOWN" IN
              /\ class \in DOMAIN locals.instance_colors
              /\ locals.patches[k].facecolor = locals.instance_colors[class]

\* The pairs of palette positions (counted from 0) holding the same color.
PaletteRepeats ==
    {p \in (0..14) \X (0..14) :
        /\ p[1] < p[2]
        /\ INSTANCE_COLORS_PALETTE[p[1] + 1] = INSTANCE_COLORS_PALETTE[p[2] + 1]}

\* The pairs of positions (counted from 1) among the first fifteen sorted
\* types of the color map whose types share a color.
SharedColors ==
    LET keys == Sorted(DOMAIN locals.instance_colors) IN
    {p \in (1..15) \X (1..15) :
        /\ p[1] < p[2] /\ p[2] <= Len(keys)
        /\ locals.instance_colors[keys[p[1]]] = locals.instance_colors[keys[p[2]]]}

ColorsMade == pc \in {"draw", "drawn"} /\ DOMAIN locals.instance_types # {}

\* C19 as stated: palette entry 13 equals entry 4 (both #85C1E9), the only
\* equal pair, so of the first 15 sorted types exactly the 5th and the 14th
\* share a color.
C19_RepeatAt4And13 ==
    /\ INSTANCE_COLORS_PALETTE[13 + 1] = "#85C1E9"
    /\ INSTANCE_COLORS_PALETTE[4 + 1] = "#85C1E9"
    /\ PaletteRepeats = {<<4, 13>>}
    /\ ColorsMade => SharedColors = {p \in {<<5, 14>>} :
                                        p[2] <= Cardinality(DOMAIN locals.instance_colors)}

\* C19, amended: palette entry 13 equals entry 9 (both #85C1E9), the only
\* equal pair, so of the first 15 sorted types exactly the 10th and the 14th
\* share a color.
C19_RepeatAt9And13 ==
    /\ INSTANCE_COLORS_PALETTE[13 + 1] = "#85C1E9"
    /\ INSTANCE_COLORS_PALETTE[9 + 1] = "#85C1E9"
    /\ PaletteRepeats = {<<9, 13>>}
    /\ ColorsMade => SharedColors = {p \in {<<10, 14>>} :
                                        p[2] <= Cardinality(DOMAIN locals.instance_colors)}

\* A drawing with at least fifteen types, the 10th and the 14th in the same
\* color and the 5th in another.
C19_Witness ==
    /\ pc = "drawn"
    /\ Cardinality(DOMAIN locals.instance_colors) >= 15
    /\ LET keys == Sorted(DOMAIN locals.instance_colors) IN
        /\ locals.instance_colors[keys[10]] = "#85C1E9"
        /\ locals.instance_colors[keys[14]] = "#85C1E9"
        /\ locals.instance_colors[keys[5]] = "#FFEAA7"
    /\ \E k \in 1..Len(locals.patches) : locals.patches[k].facecolor = "#85C1E9"

(***************************************************************************)
(* BookshelfAnalyzer.parse_lib_file, line by line                           *)
(***************************************************************************)

MaxLibLines == 4

LibLineSet ==
    {"CELL C1", "CELL C2 extra", "PIN p1", "PIN p2 OUTPUT", "PIN p3 INPUT OUTPUT CLOCK",
     "PIN p4 OUTPUT CTRL INPUT", "  PIN p5 CLOCK CTRL x", "END CELL", "PIN", "CELL"}

LibInit ==
    /\ file \in SeqsUpTo(LibLineSet, MaxLibLines)
    /\ pos = 1
    /\ pc = "loop"
    /\ locals = LibLocals
    /\ ret = None
    /\ self = Unused /\ env = Unused /\ proc = Unused

\* Lines 67-91, one line; an exception leaves the loop for line 93.
LibStep ==
    /\ pc = "loop" /\ pos <= Len(file)
    /\ LET r == LibLine(locals, file[pos]) IN
        /\ locals' = r.st
        /\ pos' = pos + 1
        /\ IF r.exc
           THEN pc' = "done" /\ ret' = [val |-> r.st.cells, error |-> TRUE]
           ELSE pc' = pc /\ ret' = ret
    /\ UNCHANGED <<file, self, env, proc>>

\* Line 96
LibReturn ==
    /\ pc = "loop" /\ pos > Len(file)
    /\ pc' = "done"
    /\ ret' = [val |-> locals.cells, error |-> FALSE]
    /\ UNCHANGED <<file, pos, locals, self, env, proc>>

LibNext == LibStep \/ LibReturn

SpecLib == LibInit /\ [][LibNext]_vars

\* The tokens after the pin name of the line the loop took last, when that
\* was a PIN line with a name inside an open cell block.
LibPinTaken ==
    /\ pc = "loop" /\ pos > 1
    /\ locals.current_cell # None
    /\ StartsWith(Strip(file[pos - 1]), "PIN")
    /\ Len(Split(file[pos - 1])) >= 2

LibPinTokens == SubSeq(Split(file[pos - 1]), 3, Len(Split(file[pos - 1])))

LibPinStored ==
    LET pins == locals.cells[locals.current_cell[1]].pins IN pins[Len(pins)]

IsDirection(t) == t \in {"INPUT", "OUTPUT"}
IsAttribute(t) == t \in {"CLOCK", "CTRL"}

\* C12: the pin of a `PIN <name> tok*` line inside an open CELL block has
\* the direction of the first token among tok* that is INPUT or OUTPUT, INPUT
\* when there is none, and as attributes exactly the CLOCK / CTRL tokens.
C12_FirstDirectionWins ==
    LibPinTaken =>
        /\ LibPinStored.name = Split(file[pos - 1])[2]
        /\ LibPinStored.type =
              (IF SelectSeq(LibPinTokens, IsDirection) = <<>> THEN "INPUT"
               ELSE Head(SelectSeq(LibPinTokens, IsDirection)))
        /\ LibPinStored.attributes = SelectSeq(LibPinTokens, IsAttribute)

(***************************************************************************)
(* scl_visualizer: parse_scl_file, then create_site_visualization           *)
(***************************************************************************)

\* Lines 19-23
SITE_COLORS_PALETTE ==
    <<"#4CAF50", "#2196F3", "#FF9800", "#9C27B0", "#F44336",
      "#00BCD4", "#FFEB3B", "#795548", "#607D8B", "#E91E63",
      "#3F51B5", "#8BC34A", "#FF5722", "#9E9E9E", "#673AB7">>

\* Lines 79-82: the i-th site type in sorted order gets palette entry i mod 15.
SiteColorsOf(keys) ==
    [t \in {keys[i] : i \in 1..Len(keys)} |->
        SITE_COLORS_PALETTE[(IndexOf(keys, t) % Len(SITE_COLORS_PALETTE)) + 1]]

SiteColors(site_types) == SiteColorsOf(Sorted(site_types))

\* Lines 95-98: the grid, each triple inside the fabric written to its cell,
\* a later triple over an earlier one.
RECURSIVE SiteGrid(_, _, _)
SiteGrid(width, height, sites) ==
    IF Len(sites) = 0 THEN [c \in (0..(height - 1)) \X (0..(width - 1)) |-> ""]
    ELSE LET site == sites[Len(sites)]
             grid == SiteGrid(width, height, SubSeq(sites, 1, Len(sites) - 1)) IN
         IF 0 <= site[1] /\ site[1] < width /\ 0 <= site[2] /\ site[2] < height
         THEN [grid EXCEPT ![<<site[2], site[1]>>] = site[3]]
         ELSE grid

\* Lines 101-121: the rectangle of each cell, white for an empty cell of a
\* grid of at most 10000 cells, none for an empty cell of a larger one.
SitePatches(width, height, grid, site_colors) ==
    [c \in {c \in DOMAIN grid : grid[c] # "" \/ ~(width * height > 10000)} |->
        IF grid[c] # ""
        THEN IF grid[c] \in DOMAIN site_colors THEN site_colors[grid[c]] ELSE "#E0E0E0"
        ELSE "white"]

\* The legend for fewer than ten site types only.
LegendShownBelowTen(site_types) == Cardinality(site_types) < 10

\* Line 134
LegendShown(site_types) == Cardinality(site_types) <= 10

\* Lines 135-138: the legend entries, in sorted order.
LegendElements(keys, site_colors) ==
    [i \in 1..Len(keys) |->
        [label |-> keys[i],
         color |-> IF keys[i] \in DOMAIN site_colors THEN site_colors[keys[i]]
                   ELSE "#E0E0E0"]]

\* Lines 134-139
SiteLegend(site_types, site_colors) ==
    IF LegendShown(site_types)
    THEN <<LegendElements(Sorted(site_types), site_colors)>>
    ELSE None

\* Lines 146-148: site_counts over all triples.
RECURSIVE SiteCounts(_)
SiteCounts(sites) ==
    IF Len(sites) = 0 THEN EmptyDict
    ELSE Incr(SiteCounts(SubSeq(sites, 1, Len(sites) - 1)), sites[Len(sites)][3])

\* Lines 101-139, on the grid and the color map made before.
SiteFigureOf(width, height, sites, site_types, grid, site_colors) ==
    [grid |-> grid,
     patches |-> SitePatches(width, height, grid, site_colors),
     legend |-> SiteLegend(site_types, site_colors),
     stats_text |-> SiteCounts(sites)]

\* create_site_visualization past the early return (lines 78-157): what the
\* figure holds.
SiteFigure(width, height, sites, site_types) ==
    SiteFigureOf(width, height, sites, site_types,
                 SiteGrid(width, height, sites), SiteColors(site_types))

(* The .scl files drawn: a SITEMAP header and one triple for each type of a *)
(* set of types, type k at x = k mod 3.                                     *)
MaxSiteTypes == 11

RECURSIVE SiteLines(_, _)
SiteLines(T, k) ==
    IF k > MaxSiteTypes THEN <<>>
    ELSE (IF k \in T THEN <<DigitChar(k % 3) \o " 0 T" \o TwoDigit(k)>> ELSE <<>>)
         \o SiteLines(T, k + 1)

SiteFiles ==
    {<<h>> \o SiteLines(T, 1) \o <<"END SITEMAP">> :
        h \in {"SITEMAP 2 2", "SITEMAP 3 1"}, T \in SUBSET (1..MaxSiteTypes)}
    \cup {<<"SITEMAP 0 2", "0 0 T01", "END SITEMAP">>}

SiteInit ==
    /\ file \in SiteFiles
    /\ pc = "parse"
    /\ locals = None
    /\ pos = 0 /\ ret = None /\ self = Unused /\ env = Unused /\ proc = Unused

\* scl_visualizer.main, line 191
SiteParse ==
    /\ pc = "parse"
    /\ locals' = S_parse_scl_file(Existing(file))
    /\ pc' = "visualize"
    /\ UNCHANGED <<file, pos, ret, self, env, proc>>

\* create_site_visualization, lines 74-157
SiteDraw ==
    /\ pc = "visualize"
    /\ IF locals.width = 0 \/ locals.height = 0
       THEN pc' = "returned" /\ ret' = ret
       ELSE /\ pc' = "drawn"
            /\ ret' = SiteFigure(locals.width, locals.height, locals.sites,
                                 locals.site_types)
    /\ UNCHANGED <<file, pos, locals, self, env, proc>>

SiteNext == SiteParse \/ SiteDraw

SpecSite == SiteInit /\ [][SiteNext]_vars

\* The site types of the triples in the file, inside the fabric or not.
SiteFileTypes == {Split(file[i])[3] : i \in 2..(Len(file) - 1)}

\* The site types that color a cell of the grid.
SiteDrawnTypes == {ret.grid[c] : c \in DOMAIN ret.grid} \ {""}

\* C13: the legend is drawn if and only if the parser discovered at most 10
\* distinct site types, the types of triples outside the fabric, which are
\* never drawn, counting as discovered.
C13_LegendUpToTen ==
    pc = "drawn" =>
        /\ locals.site_types = SiteFileTypes
        /\ ret.legend # None <=> Cardinality(SiteFileTypes) <= 10
        /\ ret.legend # None =>
              {ret.legend[1][i].label : i \in DOMAIN ret.legend[1]} = SiteFileTypes

\* Exactly ten types discovered, some of them never drawn, and the legend
\* there with all ten.
C13_Witness ==
    /\ pc = "drawn"
    /\ Cardinality(locals.site_types) = 10
    /\ Cardinality(SiteDrawnTypes) < 10
    /\ ret.legend # None
    /\ Len(ret.legend[1]) = 10

(***************************************************************************)
(* More properties of the Analyzer's .scl reader                            *)
(***************************************************************************)

\* Line i of the file is a `SITEMAP <width> <height>` line.
IsSitemapHeader(i) ==
    LET line == Strip(ScAt(file, i))
        parts == Split(line) IN
    StartsWith(line, "SITEMAP") /\ Len(parts) >= 3 /\ IsInt(parts[2]) /\ IsInt(parts[3])

\* The lines taken so far that are such headers.
SitemapHeadersTaken == {i \in 1..(pos - 1) : IsSitemapHeader(i)}

\* C14: after any sequence of lines the recorded fabric dimensions are those
\* of the first `SITEMAP <width> <height>` line taken, unset when there was
\* none; a later SITEMAP line does not change them.
C14_FirstSitemapWins ==
    pc = "parse" =>
        IF SitemapHeadersTaken = {} THEN locals.sitemap_dimensions = None
        ELSE LET first == CHOOSE i \in SitemapHeadersTaken :
                              \A j \in SitemapHeadersTaken : i <= j
                 parts == Split(ScAt(file, first)) IN
             locals.sitemap_dimensions = <<IntVal(parts[2]), IntVal(parts[3])>>

\* How many of the three mode indicators hold.
ModesOn(l) ==
    (IF l.in_sitemap THEN 1 ELSE 0) + (IF l.current_site # None THEN 1 ELSE 0)
        + (IF l.in_resources THEN 1 ELSE 0)

\* C15: in every state of the parse at most one of the three mode indicators
\* holds: in sitemap, a site block open, in resources.
C15_OneModeAtATime == pc = "parse" => ModesOn(locals) <= 1

(***************************************************************************)
(* BookshelfAnalyzer.parse_aux_file, line by line                           *)
(***************************************************************************)

MaxAuxLines == 3

AuxLineSet ==
    {"# version 1.0 01/02/2024", "# version 2.0", "# 03/04/2025 version", "#version 3.0 05/06/2026 version 4.0",
     "# date 07/08/2027", "design : design.nodes design.pl", " top:a.lib ",
     "# note : kept", "a : b : c", "plain"}

AuxInit ==
    /\ file \in SeqsUpTo(AuxLineSet, MaxAuxLines)
    /\ pos = 1
    /\ pc = "loop"
    /\ locals = EmptyDict
    /\ ret = None
    /\ self = Unused /\ env = Unused /\ proc = Unused

\* Lines 35-51, one line
AuxStep ==
    /\ pc = "loop" /\ pos <= Len(file)
    /\ LET r == AuxLine(locals, file[pos]) IN
        /\ locals' = r.st
        /\ pos' = pos + 1
        /\ IF r.exc
           THEN pc' = "done" /\ ret' = [val |-> r.st, error |-> TRUE]
           ELSE pc' = pc /\ ret' = ret
    /\ UNCHANGED <<file, self, env, proc>>

\* Line 56
AuxReturn ==
    /\ pc = "loop" /\ pos > Len(file)
    /\ pc' = "done"
    /\ ret' = [val |-> locals, error |-> FALSE]
    /\ UNCHANGED <<file, pos, locals, self, env, proc>>

AuxNext == AuxStep \/ AuxReturn

SpecAux == AuxInit /\ [][AuxNext]_vars

\* The `#` lines taken so far in which a version token, a date token, was
\* found.
AuxVersionLines ==
    {i \in 1..(pos - 1) :
        /\ StartsWith(Strip(file[i]), "#") /\ Contains(file[i], "version")
        /\ VersionSearch(Strip(file[i])) # None}

AuxDateLines ==
    {i \in 1..(pos - 1) :
        /\ StartsWith(Strip(file[i]), "#") /\ Contains(file[i], "version")
        /\ DateSearch(Strip(file[i])) # None}

Least(S) == CHOOSE i \in S : \A j \in S : i <= j

\* C16: the stored version and the stored date are those of the first `#`
\* line in which each was found; later matching lines do not overwrite them.
C16_FirstVersionKept ==
    pc = "loop" =>
        /\ AuxVersionLines # {} =>
              locals.version = VersionSearch(Strip(file[Least(AuxVersionLines)]))[1]
        /\ AuxDateLines # {} =>
              locals.date = DateSearch(Strip(file[Least(AuxDateLines)]))[1]

RECURSIVE CountOf(_, _)
CountOf(s, c) ==
    IF Len(s) = 0 THEN 0
    ELSE (IF Head(s) = c THEN 1 ELSE 0) + CountOf(Tail(s), c)

\* The text before, after, the first colon of s
RECURSIVE BeforeColon(_)
BeforeColon(s) ==
    IF Len(s) = 0 \/ Head(s) = ":" THEN "" ELSE Head(s) \o BeforeColon(Tail(s))

AfterColon(s) == SubSeq(s, Len(BeforeColon(s)) + 2, Len(s))

\* The lines taken so far that contain exactly one colon, comment or not.
AuxOneColonLines == {i \in 1..(pos - 1) : CountOf(file[i], ":") = 1}

Greatest(S) == CHOOSE i \in S : \A j \in S : i >= j

\* C17: every line with exactly one colon, `#` comment or not, sets the
\* design name to the text before the colon and the included files to the
\* tokens after it; a line with no colon or with several changes neither.
C17_EveryOneColonLine ==
    pc = "loop" =>
        IF AuxOneColonLines = {}
        THEN "design_name" \notin DOMAIN locals /\ "included_files" \notin DOMAIN locals
        ELSE LET line == Strip(file[Greatest(AuxOneColonLines)]) IN
             /\ "design_name" \in DOMAIN locals /\ "included_files" \in DOMAIN locals
             /\ locals.design_name = Strip(BeforeColon(line))
             /\ locals.included_files = Split(AfterColon(line))

(***************************************************************************)
(* The net count of the .nets reader and of the report                      *)
(***************************************************************************)

\* Line i opened a net: it starts with `net`, has at least 3 tokens and an
\* integer pin count.
NetsOpening(i) ==
    LET line == Strip(file[i])
        parts == Split(line) IN
    StartsWith(line, "net") /\ Len(parts) >= 3 /\ IsInt(parts[3])

\* The net-opening lines processed so far.
NetsOpened == {i \in 1..(pos - 1) : NetsOpening(i)}

NetsNameTwice ==
    \E i, j \in NetsOpened : i # j /\ Split(file[i])[2] = Split(file[j])[2]

\* C20: net_count is the number of net-opening lines processed, at least the
\* number of stored nets, and equal to it exactly when no net name occurs
\* twice; the report's Total Nets is net_count while its pin statistics run
\* over the stored nets.
C20_NetCountCountsLines ==
    /\ pc = "loop" =>
          /\ locals.net_count = Cardinality(NetsOpened)
          /\ locals.net_count >= Cardinality(DOMAIN locals.nets)
          /\ locals.net_count = Cardinality(DOMAIN locals.nets) <=> ~NetsNameTwice
    /\ pc = "done" =>
          LET section == ReportNets(ret.val.nets, ret.val.net_count) IN
          /\ ret.val.net_count = Cardinality(NetsOpened)
          /\ section.total_nets = Cardinality(NetsOpened)
          /\ section.pin_stats # None =>
                /\ section.pin_stats[1].len = Cardinality(DOMAIN ret.val.nets)
                /\ section.pin_stats[1].len <= section.total_nets
                /\ section.pin_stats[1].len = section.total_nets <=> ~NetsNameTwice

\* A file naming one net twice and another once: a Total Nets of 3 over
\* statistics of 2 nets.
C20_Witness ==
    /\ pc = "done" /\ ~ret.error
    /\ NetsNameTwice
    /\ ReportNets(ret.val.nets, ret.val.net_count).total_nets = 3
    /\ ReportNets(ret.val.nets, ret.val.net_count).pin_stats[1].len = 2

====
